---- MODULE Spec2Model ----
(***************************************************************************)
(* A model of the graph engine of the repository: the networkx based       *)
(* CpgLoader / Slicer of context_engine/context_engine.py and the igraph   *)
(* based CPGService of agent_system/cpg_interface.py.                      *)
(*                                                                         *)
(* The input is a JSON record {nodes: [...], edges: [...]}.  Two programs  *)
(* consume it: the context engine (Spec) and the agent service             *)
(* (SpecService); SpecBoth runs both on the same record.                   *)
(***************************************************************************)
EXTENDS Integers, Sequences, FiniteSets, TLC

\* ------------------------------------------------------------------ bounds
\* Node ids that may occur in a record are 1..MaxId.
MaxId == 3
\* Longest edge list of a record.
MaxEdges == 2
\* Largest depth argument of a query.
MaxDepth == 2
\* No call of get_source_line is followed once it went to the disk this often
\* for one filename.
MaxOpens == 2
\* Largest max_turns argument of run_loop.
MaxTurns == 4

\* ------------------------------------------------------------- input record
Ids == 1..MaxId

\* Edge kinds of the records: one structural kind, one data-flow kind, one
\* control-flow kind.
Kinds == {"AST", "CFG", "REACHING_DEF"}

\* The node lists of the records: ids 1..n in order, each with a label and a
\* NAME property.  An id of Ids above n is not a node of the record, so an
\* edge that names it is a dangling edge.
NodeLists ==
  { << [id |-> 1, label |-> "METHOD", name |-> "f"],
       [id |-> 2, label |-> "BLOCK", name |-> ""] >>,
    << [id |-> 1, label |-> "METHOD", name |-> "f"],
       [id |-> 2, label |-> "BLOCK", name |-> ""],
       [id |-> 3, label |-> "IDENTIFIER", name |-> "x"] >>,
    << [id |-> 1, label |-> "METHOD", name |-> "f"],
       [id |-> 2, label |-> "METHOD", name |-> "g"],
       [id |-> 3, label |-> "IDENTIFIER", name |-> "x"] >> }

EdgeRecs == [src : Ids, dst : Ids, label : Kinds]

EdgeLists == UNION { [1..n -> EdgeRecs] : n \in 0..MaxEdges }

\* A record as json.load returns it: either key may be absent.
Records ==
  [has_nodes : {TRUE}, nodes : NodeLists, has_edges : {TRUE}, edges : EdgeLists]
  \cup [has_nodes : {FALSE}, nodes : {<<>>}, has_edges : {TRUE},
        edges : [1..1 -> EdgeRecs]]
  \cup [has_nodes : {TRUE}, nodes : NodeLists, has_edges : {FALSE}, edges : {<<>>}]
  \cup [has_nodes : {FALSE}, nodes : {<<>>}, has_edges : {FALSE}, edges : {<<>>}]

\* ------------------------------------------------------------ small helpers
\* d[k] = v on a Python dict kept as a function.
Put(f, k, v) == [x \in DOMAIN f \cup {k} |-> IF x = k THEN v ELSE f[x]]

SeqToSet(s) == { s[i] : i \in DOMAIN s }

\* Append x to the insertion-ordered key list s unless it is there.
AddKey(s, x) == IF x \in SeqToSet(s) THEN s ELSE Append(s, x)

VARIABLES
  record,          \* the JSON record behind json_file / json_path
  graph,           \* CpgLoader.graph, an nx.DiGraph
  node_to_method,  \* CpgLoader.node_to_method, the ownership cache
  loaded,          \* CpgLoader.load has returned
  svc,             \* the CPGService object (or the failure of its constructor)
  disk,            \* the source files on disk, by path
  file_cache,      \* ContextFormatter.file_cache
  opens,           \* per filename, how often get_source_line went to the disk for it
  readers,         \* per concurrent reader, where it is in get_method_of_node
  agent,           \* LeadAgent.run_loop: where it is, its locals and what it ended with
  ret              \* the call in progress at the client and what it returned

vars ==
  <<record, graph, node_to_method, loaded, svc, disk, file_cache, opens,
    readers,
    agent, ret>>

Idle == [op |-> "idle"]

\* ------------------------------------------------------- networkx DiGraph
\* nodes: insertion-ordered node list; attrs: node -> its 'label' attribute
\* ("" when the node has none); props: node -> the attributes it got from the
\* record's 'properties'; succ / pred: insertion-ordered adjacency;
\* edge: (u, v) -> the 'label' of the one edge a DiGraph keeps for the pair.
NoLabel == ""

DiGraph == [nodes |-> <<>>, attrs |-> <<>>, props |-> <<>>, succ |-> <<>>,
            pred |-> <<>>, edge |-> <<>>]

HasNode(G, n) == n \in SeqToSet(G.nodes)

\* DiGraph.add_node(nid, label=...): a new node gets empty adjacency.
add_node(G, nid, label) ==
  IF HasNode(G, nid)
  THEN [G EXCEPT !.attrs = Put(@, nid, label)]
  ELSE [G EXCEPT !.nodes = Append(@, nid),
                 !.attrs = Put(@, nid, label),
                 !.succ = Put(@, nid, <<>>),
                 !.pred = Put(@, nid, <<>>)]

\* The implicit node creation of DiGraph.add_edge: no attribute is set.
ImplicitNode(G, n) == IF HasNode(G, n) THEN G ELSE add_node(G, n, NoLabel)

\* DiGraph.add_edge(u, v, label=...): creates u and v when absent, keeps
\* one edge per ordered pair and overwrites its label.
add_edge(G, u, v, label) ==
  LET G2 == ImplicitNode(ImplicitNode(G, u), v)
  IN [G2 EXCEPT !.succ = Put(@, u, AddKey(G2.succ[u], v)),
                !.pred = Put(@, v, AddKey(G2.pred[v], u)),
                !.edge = Put(@, <<u, v>>, label)]

\* graph.nodes[n] as far as the graph goes: the lookup of a node that is
\* absent raises KeyError and creates nothing.
NodeLookupCreates(G, n) == ImplicitNode(G, n)

NodeLookup(G, n) == G

RECURSIVE NodeLookups(_, _)
NodeLookups(G, ns) ==
  IF ns = <<>> THEN G ELSE NodeLookups(NodeLookup(G, Head(ns)), Tail(ns))

\* node.get('properties', {}): a dict from property names to values.
Properties(node) ==
  IF "properties" \in DOMAIN node THEN node.properties ELSE <<>>

\* graph.nodes[n] as far as the properties go: a node that add_edge created
\* has none.
NodeProps(G, n) == IF n \in DOMAIN G.props THEN G.props[n] ELSE <<>>

RECURSIVE AddNodes(_, _)
AddNodes(G, nodes) ==
  IF nodes = <<>> THEN G
  ELSE AddNodes([add_node(G, Head(nodes).id, Head(nodes).label)
                   EXCEPT !.props = Put(@, Head(nodes).id, Properties(Head(nodes)))],
                Tail(nodes))

RECURSIVE AddEdges(_, _)
AddEdges(G, edges) ==
  IF edges = <<>> THEN G
  ELSE AddEdges(add_edge(G, Head(edges).src, Head(edges).dst, Head(edges).label),
                Tail(edges))

\* data.get('nodes', []) and data.get('edges', [])
DataGet(data, key) ==
  IF key = "nodes" THEN (IF data.has_nodes THEN data.nodes ELSE <<>>)
  ELSE (IF data.has_edges THEN data.edges ELSE <<>>)

\* CpgLoader.load: the graph it returns.
LoadGraph(data) ==
  AddEdges(AddNodes(DiGraph, DataGet(data, "nodes")), DataGet(data, "edges"))

\* ------------------------------------------------ CpgLoader.get_method_of_node
\* The edge labels the ascent follows (line 78).
IsStructuralAny(label) == TRUE

IsStructural(label) == label \in {"AST", "CONTAINS"}

\* The predecessors of curr that the for loop appends to the queue, in order.
StructuralPreds(G, curr) ==
  SelectSeq(G.pred[curr], LAMBDA p : IsStructural(G.edge[<<p, curr>>]))

\* The while loop: [kind |-> "value", id |-> m], [kind |-> "None"], or the
\* KeyError of self.graph.nodes[curr] for an id that is not in the graph.
RECURSIVE OwnerWhile(_, _, _)
OwnerWhile(G, queue, visited) ==
  IF queue = <<>> THEN [kind |-> "None"]
  ELSE LET curr == Head(queue)
       IN IF curr \in visited THEN OwnerWhile(G, Tail(queue), visited)
          ELSE IF ~HasNode(G, curr) THEN [kind |-> "KeyError"]
          ELSE IF G.attrs[curr] = "METHOD" THEN [kind |-> "value", id |-> curr]
          ELSE OwnerWhile(G, Tail(queue) \o StructuralPreds(G, curr),
                          visited \cup {curr})

\* self.node_to_method[node_id] = curr (line 72).
MemoQueried(cache, node_id, curr) == Put(cache, node_id, node_id)

Memo(cache, node_id, curr) == Put(cache, node_id, curr)

\* The whole call: what it returns and the cache it leaves.  Only a METHOD
\* that was found is written to the cache (line 72); None is returned at
\* line 81 without a write.
get_method_of_node(G, cache, node_id) ==
  IF node_id \in DOMAIN cache
  THEN [val |-> [kind |-> "value", id |-> cache[node_id]], cache |-> cache]
  ELSE LET r == OwnerWhile(G, <<node_id>>, {})
       IN [val |-> r,
           cache |-> IF r.kind = "value" THEN Memo(cache, node_id, r.id)
                     ELSE cache]

\* ------------------------------------------------------------- Slicer.slice
NoneArg == {"<None>"}

\* edge_types=None falls back to the default list (line 91).
DefaultEdgeTypes == {"REACHING_DEF", "CDG", "REF"}

EffectiveEdgeTypesOrDefault(edge_types) ==
  IF edge_types = NoneArg \/ edge_types = {} THEN DefaultEdgeTypes
  ELSE edge_types

EffectiveEdgeTypes(edge_types) ==
  IF edge_types = NoneArg THEN DefaultEdgeTypes ELSE edge_types

\* result_nodes[k] = v on the insertion-ordered dict result_nodes.
DictSet(result, k, v) ==
  IF \E i \in DOMAIN result : result[i].id = k
  THEN [i \in DOMAIN result |->
          IF result[i].id = k THEN [id |-> k, flag |-> v] ELSE result[i]]
  ELSE Append(result, [id |-> k, flag |-> v])

\* graph.predecessors / graph.successors, in adjacency order; [] for any
\* other direction (lines 105-111).
SliceNeighbors(G, curr, direction) ==
  IF direction = "backward" THEN G.pred[curr]
  ELSE IF direction = "forward" THEN G.succ[curr]
  ELSE <<>>

\* get_edge_data(...).get('label') for the neighbour (lines 117-122).
SliceEdgeLabel(G, curr, neighbor, direction) ==
  IF direction = "backward" THEN G.edge[<<neighbor, curr>>]
  ELSE G.edge[<<curr, neighbor>>]

\* The kind test of line 123.
KindMatchesExactly(label, edge_types) == edge_types = {label}

KindMatches(label, edge_types) == label \in edge_types

\* The cut-off test of line 102.
DepthCutLate(d, depth) == d > depth

DepthCutOrDefault(d, depth) == d >= (IF depth = 0 THEN 5 ELSE depth)

DepthCut(d, depth) == d >= depth

\* visited.add(neighbor) (line 124).
MarkVisitedForgets(visited, n) == visited

MarkVisited(visited, n) == visited \cup {n}

\* result_nodes = {seed_node_id: False} (line 97).
InitialResultEmpty(seed_node_id) == <<>>

InitialResult(seed_node_id) == << [id |-> seed_node_id, flag |-> FALSE] >>

\* The for loop over the neighbours of curr (lines 113-126).
RECURSIVE SliceFor(_, _, _, _, _, _, _)
SliceFor(G, curr, d, direction, edge_types, nbrs, st) ==
  IF nbrs = <<>> THEN st
  ELSE LET neighbor == Head(nbrs)
       IN IF neighbor \in st.visited
          THEN SliceFor(G, curr, d, direction, edge_types, Tail(nbrs), st)
          ELSE IF KindMatches(SliceEdgeLabel(G, curr, neighbor, direction),
                              edge_types)
          THEN SliceFor(G, curr, d, direction, edge_types, Tail(nbrs),
                 [st EXCEPT !.visited = MarkVisited(@, neighbor),
                            !.result_nodes = DictSet(@, neighbor, FALSE),
                            !.queue = Append(@, <<neighbor, d + 1>>)])
          ELSE SliceFor(G, curr, d, direction, edge_types, Tail(nbrs), st)

\* The while loop (lines 100-126); dequeues counts the queue.pop(0) calls.
RECURSIVE SliceWhile(_, _, _, _, _)
SliceWhile(G, direction, depth, edge_types, st) ==
  IF st.queue = <<>> THEN st
  ELSE LET curr == Head(st.queue)[1]
           d == Head(st.queue)[2]
           st1 == [st EXCEPT !.queue = Tail(@), !.dequeues = @ + 1]
       IN IF DepthCut(d, depth)
          THEN SliceWhile(G, direction, depth, edge_types, st1)
          ELSE SliceWhile(G, direction, depth, edge_types,
                 SliceFor(G, curr, d, direction, edge_types,
                          SliceNeighbors(G, curr, direction), st1))

\* The whole call.  self.graph.nodes[seed_node_id] (line 98) raises KeyError
\* for a seed that is not a node of the graph.
slice(G, seed_node_id, direction, depth, edge_types) ==
  IF ~HasNode(G, seed_node_id) THEN [kind |-> "KeyError"]
  ELSE LET st == SliceWhile(G, direction, depth, EffectiveEdgeTypes(edge_types),
                   [visited |-> {seed_node_id},
                    queue |-> << <<seed_node_id, 0>> >>,
                    result_nodes |-> InitialResult(seed_node_id),
                    dequeues |-> 0])
       IN [kind |-> "value", result_nodes |-> st.result_nodes,
           dequeues |-> st.dequeues]

\* The keys of a returned mapping.
Keys(result_nodes) == { result_nodes[i].id : i \in DOMAIN result_nodes }

\* --------------------------------------------------------- get_ground_truth
\* edge.get('label') == 'REACHING_DEF' (line 23 of
\* analyze_def_use_exhaustiveness.py).
IsAnyLabel(label) == TRUE

IsReachingDef(label) == label = "REACHING_DEF"

\* The while loop of lines 17-26: the visited set when the queue is empty.
RECURSIVE GroundTruthWhile(_, _, _)
GroundTruthWhile(G, queue, visited) ==
  IF queue = <<>> THEN visited
  ELSE LET curr == Head(queue)
           new == SelectSeq(G.pred[curr],
                            LAMBDA p : /\ IsReachingDef(G.edge[<<p, curr>>])
                                       /\ p \notin visited)
       IN GroundTruthWhile(G, Tail(queue) \o new, visited \cup SeqToSet(new))

\* get_ground_truth(graph, seed_node) for a seed of the graph.
get_ground_truth(G, seed_node) == GroundTruthWhile(G, <<seed_node>>, {seed_node})

\* The call as the caller sees it: graph.predecessors (line 21) raises
\* NetworkXError for a seed that is not in the graph.
GroundTruthCall(G, seed_node) ==
  IF ~HasNode(G, seed_node) THEN [kind |-> "NetworkXError"]
  ELSE [kind |-> "value", visited |-> get_ground_truth(G, seed_node)]

\* -------------------------------------------------------------------- text
\* A Python str is kept as the sequence of its characters, each a string of
\* length one; the grave accent (code point 96), which cannot be written in a
\* string here, is the value Backtick.
Backtick == "<grave accent>"

\* The characters of the model's texts in code point order.
Ascii ==
  << "\n", " ", "(", ")", ".", "/", "0", "1", "2", "3", "4", "5", "6",
     "7", "8", "9", ":", "=", "F", "M", "_", Backtick, "a", "b", "c", "d",
     "e", "f", "g", "h", "i", "j", "k", "l", "m", "n", "o", "p", "q",
     "r", "s", "t", "u", "v", "w", "x", "y", "z", "|" >>

Ord(c) == CHOOSE i \in DOMAIN Ascii : Ascii[i] = c

\* a < b on str: lexicographic by code point.
RECURSIVE StrLess(_, _)
StrLess(a, b) ==
  IF b = <<>> THEN FALSE
  ELSE IF a = <<>> THEN TRUE
  ELSE IF Head(a) = Head(b) THEN StrLess(Tail(a), Tail(b))
  ELSE Ord(Head(a)) < Ord(Head(b))

\* sorted(...) of a set of str and of a set of int.
RECURSIVE SortedStrs(_)
SortedStrs(S) ==
  IF S = {} THEN <<>>
  ELSE LET m == CHOOSE x \in S : \A y \in S \ {x} : StrLess(x, y)
       IN <<m>> \o SortedStrs(S \ {m})

RECURSIVE SortedInts(_)
SortedInts(S) ==
  IF S = {} THEN <<>>
  ELSE LET m == CHOOSE x \in S : \A y \in S : x <= y
       IN <<m>> \o SortedInts(S \ {m})

\* str(n) for n >= 0.
RECURSIVE Digits(_)
Digits(n) ==
  LET d == <<"0", "1", "2", "3", "4", "5", "6", "7", "8", "9">>[(n % 10) + 1]
  IN IF n < 10 THEN <<d>> ELSE Append(Digits(n \div 10), d)

\* f"{n:4d}" for n >= 0: right-aligned in a field of 4, never truncated.
Format4d(n) ==
  LET d == Digits(n)
  IN [i \in 1..(IF Len(d) < 4 THEN 4 - Len(d) ELSE 0) |-> " "] \o d

\* int(s) for a str of decimal digits.
RECURSIVE ParseInt(_)
ParseInt(s) ==
  IF s = <<>> THEN 0
  ELSE ParseInt(SubSeq(s, 1, Len(s) - 1)) * 10
         + ((CHOOSE i \in 1..10 :
               <<"0", "1", "2", "3", "4", "5", "6", "7", "8", "9">>[i] = s[Len(s)]) - 1)

\* A JSON number is kept as [int |-> n] and a JSON string as [str |-> s];
\* int(v) leaves the one and parses the other.
PyInt(v) == IF "int" \in DOMAIN v THEN v.int ELSE ParseInt(v.str)

\* s.rstrip(): trailing whitespace removed.
RECURSIVE rstrip(_)
rstrip(s) ==
  IF s # <<>> /\ s[Len(s)] \in {" ", "\n", "\t", "\r"}
  THEN rstrip(SubSeq(s, 1, Len(s) - 1))
  ELSE s

\* sep.join(strs)
RECURSIVE StrJoin(_, _)
StrJoin(sep, strs) ==
  IF strs = <<>> THEN <<>>
  ELSE IF Len(strs) = 1 THEN strs[1]
  ELSE strs[1] \o sep \o StrJoin(sep, Tail(strs))

\* d.get(k, default)
DictGet(d, k, default) == IF k \in DOMAIN d THEN d[k] ELSE default

\* ------------------------------------------------------- ContextFormatter
\* source_root="libpng" (line 145)
SourceRoot == <<"l", "i", "b", "p", "n", "g">>

UnknownFile == <<"u", "n", "k", "n", "o", "w", "n", "_", "f", "i", "l", "e">>

NoneValue == [kind |-> "None"]

\* os.path.join(source_root, filename): an absolute filename replaces the
\* root.
PathJoin(root, filename) ==
  IF filename # <<>> /\ Head(filename) = "/" THEN filename
  ELSE root \o <<"/">> \o filename

\* os.path.exists(path)
Exists(D, path) == path \in DOMAIN D

\* Lines 155-170: what a cache miss stores for filename: the result of
\* readlines() when a candidate path exists and can be read, None when none
\* exists or when open or read raises.
ReadFile(D, filename) ==
  LET joined == PathJoin(SourceRoot, filename)
      candidate == IF ~Exists(D, joined) THEN filename ELSE joined
  IN IF Exists(D, candidate)
     THEN IF D[candidate].readable
          THEN [kind |-> "lines", lines |-> D[candidate].lines]
          ELSE NoneValue
     ELSE NoneValue

\* filename in self.file_cache (line 154): a cached None is an entry too.
InCacheUnlessNone(cache, filename) ==
  filename \in DOMAIN cache /\ cache[filename].kind # "None"

InCache(cache, filename) == filename \in DOMAIN cache

\* ContextFormatter.get_source_line: the returned value, the cache after the
\* call, and whether the call went to the disk (lines 155-170).
get_source_line(D, cache, filename, line_no) ==
  IF filename = <<>> \/ filename = UnknownFile
  THEN [val |-> NoneValue, file_cache |-> cache, opened |-> FALSE]
  ELSE LET opened == ~InCache(cache, filename)
           cache2 == IF opened
                     THEN Put(cache, filename, ReadFile(D, filename))
                     ELSE cache
           lines == cache2[filename]
       IN IF /\ lines.kind = "lines"
             /\ lines.lines # <<>>
             /\ 1 <= line_no
             /\ line_no <= Len(lines.lines)
          THEN [val |-> [kind |-> "value",
                         text |-> rstrip(lines.lines[line_no])],
                file_cache |-> cache2, opened |-> opened]
          ELSE [val |-> NoneValue, file_cache |-> cache2, opened |-> opened]

\* if method_id: (line 188): None and 0 are falsy.
Truthy(method) == method.kind = "value" /\ method.id # 0

\* key == line (line 195) for a key of node_alias_status, which is a
\* (filename, line) tuple, and the int line: Python compares a tuple and an
\* int unequal whatever they hold.
TupleEqualsInt(key, line) == FALSE

\* line in node_alias_status (line 195)
LineInStatus(node_alias_status, line) ==
  \E key \in DOMAIN node_alias_status : TupleEqualsInt(key, line)

\* Lines 195-199: the flag stored for (filename, line).
MergeStatus(node_alias_status, filename, line, is_alias) ==
  IF ~LineInStatus(node_alias_status, line)
  THEN Put(node_alias_status, <<filename, line>>, is_alias)
  ELSE IF ~is_alias
       THEN Put(node_alias_status, <<filename, line>>, FALSE)
       ELSE node_alias_status

\* files[filename][line].append(node) on the defaultdict of defaultdicts.
FilesAppend(files, filename, line, node) ==
  LET of_file == DictGet(files, filename, <<>>)
      on_line == DictGet(of_file, line, <<>>)
  IN Put(files, filename, Put(of_file, line, Append(on_line, node)))

\* The loop of lines 181-199 over result_nodes.items(); graph.nodes[nid]
\* raises KeyError for an id that is not a node.
RECURSIVE GroupFor(_, _, _)
GroupFor(G, items, st) ==
  IF items = <<>> THEN st
  ELSE LET nid == Head(items).id
           is_alias == Head(items).flag
           node == NodeProps(G, nid)
       IN IF ~HasNode(G, nid) THEN [st EXCEPT !.raised = TRUE]
          ELSE IF "LINE_NUMBER" \notin DOMAIN node
          THEN GroupFor(G, Tail(items), st)
          ELSE LET owner == get_method_of_node(G, st.cache, nid)
                   filename ==
                     IF Truthy(owner.val)
                     THEN DictGet(NodeProps(G, owner.val.id), "FILENAME",
                                  UnknownFile)
                     ELSE UnknownFile
                   line == PyInt(node.LINE_NUMBER)
               IN GroupFor(G, Tail(items),
                    [st EXCEPT
                       !.cache = owner.cache,
                       !.files = FilesAppend(@, filename, line, node),
                       !.node_alias_status =
                          MergeStatus(@, filename, line, is_alias)])

\* Lines 222-227: the longest CODE among the nodes of the line, the first of
\* them when several are as long.
BestCodeOfFirstNode(nodes_on_line, best_code) ==
  IF nodes_on_line = <<>> THEN best_code
  ELSE DictGet(Head(nodes_on_line), "CODE", <<>>)

RECURSIVE BestCode(_, _)
BestCode(nodes_on_line, best_code) ==
  IF nodes_on_line = <<>> THEN best_code
  ELSE LET code == DictGet(Head(nodes_on_line), "CODE", <<>>)
       IN BestCode(Tail(nodes_on_line),
                   IF Len(code) > Len(best_code) THEN code ELSE best_code)

\* Lines 230-234: the annotation text of a line.
AnnStr(is_alias_line, seed_name) ==
  IF is_alias_line
  THEN <<" ", "/", "/", " ">> \o <<"M", "a", "y", " ", "a", "l", "i", "a", "s", " ">> \o seed_name
  ELSE <<>>

\* if line_no > prev_line + 1 (line 213)
IsGapAfterAnyLine(line_no, prev_line) == line_no > prev_line

IsGap(line_no, prev_line) == line_no > prev_line + 1

\* The loop of lines 212-237 over the sorted lines of one file.
RECURSIVE LinesFor(_, _, _, _, _, _)
LinesFor(D, grouped, seed_name, filename, lines, st) ==
  IF lines = <<>> THEN st
  ELSE LET line_no == Head(lines)
           gap == IF IsGap(line_no, st.prev_line) THEN << <<" ", " ", ".", ".", ".">> >>
                  ELSE <<>>
           nodes_on_line == grouped.files[filename][line_no]
           is_alias_line == grouped.node_alias_status[<<filename, line_no>>]
           src == get_source_line(D, st.file_cache, filename, line_no)
           code_line == IF src.val.kind = "None" THEN BestCode(nodes_on_line, <<>>)
                        ELSE src.val.text
           text == Format4d(line_no) \o <<" ", "|", " ">> \o code_line
                     \o AnnStr(is_alias_line, seed_name)
       IN LinesFor(D, grouped, seed_name, filename, Tail(lines),
                   [st EXCEPT !.output = @ \o gap \o <<text>>,
                              !.file_cache = src.file_cache,
                              !.opened = IF src.opened THEN Append(@, filename)
                                         ELSE @,
                              !.prev_line = line_no])

\* The loop of lines 203-238 over the sorted filenames.
RECURSIVE FilesFor(_, _, _, _, _)
FilesFor(D, grouped, seed_name, filenames, st) ==
  IF filenames = <<>> THEN st
  ELSE LET filename == Head(filenames)
           lines == SortedInts(DOMAIN grouped.files[filename])
           opened == [st EXCEPT
                        !.output = @ \o << <<"F", "i", "l", "e", ":", " ", Backtick>> \o filename \o <<Backtick>>,
                                           <<Backtick, Backtick, Backtick, "c">> >>,
                        !.prev_line = lines[1]]
           done == LinesFor(D, grouped, seed_name, filename, lines, opened)
       IN FilesFor(D, grouped, seed_name, Tail(filenames),
                   [done EXCEPT !.output = Append(@, <<Backtick, Backtick, Backtick>>)])

\* ContextFormatter.format_to_string: the returned text (or the KeyError), the
\* two caches after the call and the filenames it went to the disk for.
format_to_string(G, cache, D, fcache, result_nodes, seed_name) ==
  LET grouped == GroupFor(G, result_nodes,
                          [files |-> <<>>, node_alias_status |-> <<>>,
                           cache |-> cache, raised |-> FALSE])
  IN IF grouped.raised
     THEN [val |-> [kind |-> "KeyError"], cache |-> grouped.cache,
           file_cache |-> fcache, opened |-> <<>>]
     ELSE LET st == FilesFor(D, grouped, seed_name,
                             SortedStrs(DOMAIN grouped.files),
                             [output |-> <<>>, file_cache |-> fcache,
                              opened |-> <<>>, prev_line |-> 0])
          IN [val |-> [kind |-> "value", text |-> StrJoin(<<"\n">>, st.output)],
              cache |-> grouped.cache, file_cache |-> st.file_cache,
              opened |-> st.opened]

\* ------------------------------------------------- CPGService._load_graph
\* The object after __init__ (lines 7-16): no graph yet.
NewService == [status |-> "constructing", vcount |-> 0, id_to_idx |-> <<>>,
               idx_to_id |-> <<>>, idx_to_label |-> <<>>, idx_to_name |-> <<>>,
               idx_to_code |-> <<>>, es |-> <<>>]

\* The enumerate loop of lines 30-40; vertex indices are 0-based.
RECURSIVE IndexNodes(_, _, _)
IndexNodes(S, nodes, i) ==
  IF i > Len(nodes) THEN S
  ELSE IndexNodes([S EXCEPT !.id_to_idx = Put(@, nodes[i].id, i - 1),
                            !.idx_to_id = Put(@, i - 1, nodes[i].id),
                            !.idx_to_label = Put(@, i - 1, nodes[i].label),
                            !.idx_to_name = Put(@, i - 1, nodes[i].name),
                            !.idx_to_code =
                              Put(@, i - 1, DictGet(Properties(nodes[i]),
                                                    "CODE", <<>>))],
                  nodes, i + 1)

\* The endpoint test of line 46.
KeepsEdge(S, e) == e.src \in DOMAIN S.id_to_idx /\ e.dst \in DOMAIN S.id_to_idx

\* The edge loop as a simple graph would keep it: one edge per ordered pair.
CollectEdgesSimple(S, edges) ==
  LET First(i) == \A j \in 1..(i - 1) :
                    edges[j].src # edges[i].src \/ edges[j].dst # edges[i].dst
      RECURSIVE From(_)
      From(i) ==
        IF i > Len(edges) THEN <<>>
        ELSE (IF KeepsEdge(S, edges[i]) /\ First(i)
              THEN << [source |-> S.id_to_idx[edges[i].src],
                       target |-> S.id_to_idx[edges[i].dst],
                       label |-> edges[i].label] >>
              ELSE <<>>) \o From(i + 1)
  IN From(1)

\* The edge loop of lines 43-50: the (src_idx, dst_idx) pairs and labels of
\* the edges it keeps, in input order.
RECURSIVE CollectEdges(_, _)
CollectEdges(S, edges) ==
  IF edges = <<>> THEN <<>>
  ELSE LET e == Head(edges)
       IN IF KeepsEdge(S, e)
          THEN << [source |-> S.id_to_idx[e.src], target |-> S.id_to_idx[e.dst],
                   label |-> e.label] >> \o CollectEdges(S, Tail(edges))
          ELSE CollectEdges(S, Tail(edges))

\* The constructor, which ends in _load_graph.  data['nodes'] (line 27) and
\* data['edges'] (line 45) raise KeyError for an absent key; the exception
\* leaves __init__, so the caller gets no object.
CPGService(data) ==
  IF ~data.has_nodes THEN [NewService EXCEPT !.status = "KeyError"]
  ELSE LET S1 == IndexNodes([NewService EXCEPT !.vcount = Len(data.nodes)],
                            data.nodes, 1)
       IN IF ~data.has_edges THEN [S1 EXCEPT !.status = "KeyError"]
          ELSE [S1 EXCEPT !.status = "ok", !.es = CollectEdges(S1, data.edges)]

\* ------------------------------------------- CPGService.search_codebase
\* A NAME of the records, which has at most one character, as a text.
NameText(name) == IF name = "" THEN <<>> ELSE <<name>>

\* str.lower() on the characters of the records and queries.
LowerChar(c) == IF c = "F" THEN "f" ELSE IF c = "G" THEN "g"
                ELSE IF c = "X" THEN "x" ELSE c

Lower(t) == [i \in DOMAIN t |-> LowerChar(t[i])]

\* a in b for texts: a occurs in b as a contiguous run.
In(a, b) ==
  \E i \in 0..(Len(b) - Len(a)) : SubSeq(b, i + 1, i + Len(a)) = a

\* s[:n]
Prefix(t, n) == SubSeq(t, 1, IF Len(t) < n THEN Len(t) ELSE n)

\* The record appended at lines 66-71.
SearchHit(S, i) ==
  [id |-> S.idx_to_id[i], label |-> S.idx_to_label[i],
   name |-> S.idx_to_name[i],
   code |-> Prefix(S.idx_to_code[i], 50) \o <<".", ".", ".">>]

\* The loop of lines 62-72 from vertex i on.
RECURSIVE SearchFrom(_, _, _, _)
SearchFrom(S, query, i, results) ==
  IF i >= S.vcount THEN results
  ELSE IF \/ In(query, Lower(NameText(S.idx_to_name[i])))
          \/ In(query, Lower(S.idx_to_code[i]))
       THEN LET results2 == Append(results, SearchHit(S, i))
            IN IF Len(results2) >= 20 THEN results2
               ELSE SearchFrom(S, query, i + 1, results2)
       ELSE SearchFrom(S, query, i + 1, results)

search_codebase(S, query) ==
  [kind |-> "value", results |-> SearchFrom(S, Lower(query), 0, <<>>)]

\* ----------------------------------------------------- CPGService._trace
\* The edges from a to b, in edge order: g.es.select(_source=a, _target=b).
EsSelectFirst(S, a, b) ==
  LET all == SelectSeq(S.es, LAMBDA e : e.source = a /\ e.target = b)
  IN IF all = <<>> THEN <<>> ELSE <<Head(all)>>

EsSelect(S, a, b) == SelectSeq(S.es, LAMBDA e : e.source = a /\ e.target = b)

\* g.neighbors(v, mode): the other endpoints of the edges at v in the mode's
\* orientation (both orientations for "ALL"), by ascending vertex index, once
\* per parallel edge.
RECURSIVE NeighborsFrom(_, _, _, _)
NeighborsFrom(S, v, mode, j) ==
  IF j >= S.vcount THEN <<>>
  ELSE LET par == IF mode = "OUT" THEN EsSelect(S, v, j)
                  ELSE IF mode = "IN" THEN EsSelect(S, j, v)
                  ELSE EsSelect(S, v, j) \o EsSelect(S, j, v)
       IN [i \in 1..Len(par) |-> j] \o NeighborsFrom(S, v, mode, j + 1)

Neighbors(S, v, mode) == NeighborsFrom(S, v, mode, 0)

\* The hop appended at lines 161-167.
Hop(S, curr_idx, n_idx, elabel) ==
  [source |-> S.idx_to_name[curr_idx], target |-> S.idx_to_name[n_idx],
   edge |-> elabel, target_id |-> S.idx_to_id[n_idx]]

\* visited.add(n_idx) (line 158).
TraceMarkForgets(visited, n_idx) == visited

TraceMark(visited, n_idx) == visited \cup {n_idx}

\* The loop over the parallel edges between curr_idx and n_idx (154-167).
RECURSIVE TraceEdges(_, _, _, _, _, _, _)
TraceEdges(S, curr_idx, depth, n_idx, edge_types, edges, st) ==
  IF edges = <<>> THEN st
  ELSE LET elabel == Head(edges).label
       IN IF elabel \in edge_types /\ n_idx \notin st.visited
          THEN TraceEdges(S, curr_idx, depth, n_idx, edge_types, Tail(edges),
                 [st EXCEPT !.visited = TraceMark(@, n_idx),
                            !.queue = Append(@, <<n_idx, depth + 1>>),
                            !.trace_result = Append(@, Hop(S, curr_idx, n_idx, elabel))])
          ELSE TraceEdges(S, curr_idx, depth, n_idx, edge_types, Tail(edges), st)

\* The loop over the neighbours of curr_idx (lines 147-167).
RECURSIVE TraceFor(_, _, _, _, _, _, _)
TraceFor(S, curr_idx, depth, mode, edge_types, nbrs, st) ==
  IF nbrs = <<>> THEN st
  ELSE LET n_idx == Head(nbrs)
           edges == IF mode = "OUT" THEN EsSelect(S, curr_idx, n_idx)
                    ELSE EsSelect(S, n_idx, curr_idx)
       IN TraceFor(S, curr_idx, depth, mode, edge_types, Tail(nbrs),
                   TraceEdges(S, curr_idx, depth, n_idx, edge_types, edges, st))

\* The cut-off test of line 143.
TraceCut(depth, max_depth) == depth >= max_depth

\* The while loop (lines 141-167).
RECURSIVE TraceWhile(_, _, _, _, _)
TraceWhile(S, mode, edge_types, max_depth, st) ==
  IF st.queue = <<>> THEN st
  ELSE LET curr_idx == Head(st.queue)[1]
           depth == Head(st.queue)[2]
           st1 == [st EXCEPT !.queue = Tail(@), !.dequeues = @ + 1]
       IN IF TraceCut(depth, max_depth)
          THEN TraceWhile(S, mode, edge_types, max_depth, st1)
          ELSE TraceWhile(S, mode, edge_types, max_depth,
                 TraceFor(S, curr_idx, depth, mode, edge_types,
                          Neighbors(S, curr_idx, mode), st1))

\* mode = ig.OUT if direction == "OUT" else ig.IN (line 129).
TraceModeAlwaysOut(direction) == "OUT"

TraceMode(direction) == IF direction = "OUT" THEN "OUT" ELSE "IN"

\* The value returned for an unknown node id (lines 126 and 180).
NotFoundAsEmptyList == [kind |-> "value", trace_result |-> <<>>, dequeues |-> 0]

NotFound == [kind |-> "Node not found."]

\* The whole call: "Node not found." for an unknown id, else the hop list.
trace(S, start_node_id, direction, edge_types, max_depth) ==
  IF start_node_id \notin DOMAIN S.id_to_idx THEN NotFound
  ELSE LET start_idx == S.id_to_idx[start_node_id]
           mode == TraceMode(direction)
           st == TraceWhile(S, mode, edge_types, max_depth,
                   [visited |-> {start_idx}, queue |-> << <<start_idx, 0>> >>,
                    trace_result |-> <<>>, dequeues |-> 0])
       IN [kind |-> "value", trace_result |-> st.trace_result,
           dequeues |-> st.dequeues]

\* The target ids of a hop list.
Targets(trace_result) == { trace_result[i].target_id : i \in DOMAIN trace_result }

\* ------------------------- CPGService.trace_data_flow / trace_control_flow
DataFlowEdgeTypesWithCfg ==
  {"REACHING_DEF", "PARAMETER_LINK", "ARGUMENT", "REF", "ALIAS_OF", "CFG"}

DataFlowEdgeTypes == {"REACHING_DEF", "PARAMETER_LINK", "ARGUMENT", "REF", "ALIAS_OF"}

ControlFlowEdgeTypes == {"CALL", "CFG", "DOMINATE", "CDG"}

trace_data_flow(S, start_node_id, direction, max_depth) ==
  trace(S, start_node_id, direction, DataFlowEdgeTypes, max_depth)

trace_control_flow(S, start_node_id, direction, max_depth) ==
  trace(S, start_node_id, direction, ControlFlowEdgeTypes, max_depth)

\* ------------------------------------ CPGService.summarize_neighborhood
\* mode=ig.ALL (line 183).
SummaryModeOut == "OUT"

SummaryMode == "ALL"

\* One vertex of g.neighborhood's breadth-first walk: its neighbours that are
\* not yet in the result are added and queued.
RECURSIVE NeighborhoodFor(_, _, _)
NeighborhoodFor(nbrs, d, st) ==
  IF nbrs = <<>> THEN st
  ELSE IF Head(nbrs) \in SeqToSet(st.found)
       THEN NeighborhoodFor(Tail(nbrs), d, st)
       ELSE NeighborhoodFor(Tail(nbrs), d,
              [st EXCEPT !.found = Append(@, Head(nbrs)),
                         !.queue = Append(@, <<Head(nbrs), d + 1>>)])

RECURSIVE NeighborhoodWhile(_, _, _, _)
NeighborhoodWhile(S, order, mode, st) ==
  IF st.queue = <<>> THEN st.found
  ELSE LET v == Head(st.queue)[1]
           d == Head(st.queue)[2]
           st1 == [st EXCEPT !.queue = Tail(@)]
       IN IF d >= order THEN NeighborhoodWhile(S, order, mode, st1)
          ELSE NeighborhoodWhile(S, order, mode,
                 NeighborhoodFor(Neighbors(S, v, mode), d, st1))

\* g.neighborhood(idx, order=radius, mode=...): the vertices within order
\* steps of idx, idx first, each once.
Neighborhood(S, idx, order, mode) ==
  NeighborhoodWhile(S, order, mode, [found |-> <<idx>>, queue |-> << <<idx, 0>> >>])

\* The loop of lines 194-201 over the neighbourhood: the centre is skipped.
RECURSIVE SummaryNeighbors(_, _, _)
SummaryNeighbors(S, idx, neighbors) ==
  IF neighbors = <<>> THEN <<>>
  ELSE IF Head(neighbors) = idx THEN SummaryNeighbors(S, idx, Tail(neighbors))
       ELSE << [id |-> S.idx_to_id[Head(neighbors)],
                label |-> S.idx_to_label[Head(neighbors)],
                name |-> S.idx_to_name[Head(neighbors)]] >>
            \o SummaryNeighbors(S, idx, Tail(neighbors))

summarize_neighborhood(S, node_id, radius) ==
  IF node_id \notin DOMAIN S.id_to_idx THEN NotFound
  ELSE LET idx == S.id_to_idx[node_id]
       IN [kind |-> "value",
           center |-> [id |-> node_id, label |-> S.idx_to_label[idx],
                       name |-> S.idx_to_name[idx]],
           neighbors |-> SummaryNeighbors(S, idx,
                           Neighborhood(S, idx, radius, SummaryMode))]

\* ------------------------------------------------------------------ inputs
Directions == {"backward", "forward"}

TraceDirections == {"OUT", "IN"}

Depths == 0..MaxDepth

\* The edge_types arguments of the queries: every set of record kinds.
KindSets == SUBSET Kinds

\* ------------------------------------------------- inputs of the formatter
FileA == <<"a", ".", "c">>

FileB == <<"b", ".", "c">>

IntValue(n) == [int |-> n]

StrValue(s) == [str |-> s]

\* The records behind the formatter: a METHOD f of file a.c, an IDENTIFIER x
\* and a third node that is a CALL, a second METHOD g of file b.c, or missing;
\* the properties give some nodes a LINE_NUMBER (a number or a string of
\* digits) and a CODE.
FormatNodeLists ==
  LET n1 == { [id |-> 1, label |-> "METHOD", name |-> "f", properties |-> ps] :
                ps \in { [FILENAME |-> FileA],
                         [FILENAME |-> FileA, LINE_NUMBER |-> IntValue(10),
                          CODE |-> <<"f", "(", ")">>] } }
      n2 == { [id |-> 2, label |-> "IDENTIFIER", name |-> "x", properties |-> ps] :
                ps \in { [LINE_NUMBER |-> IntValue(10), CODE |-> <<"x">>],
                         [LINE_NUMBER |-> IntValue(11), CODE |-> <<"x">>],
                         [LINE_NUMBER |-> StrValue(<<"1", "0">>)] } }
      n3 == { [id |-> 3, label |-> "CALL", name |-> "", properties |-> ps] :
                ps \in { [LINE_NUMBER |-> IntValue(10), CODE |-> <<"x", "=", "1">>],
                         [LINE_NUMBER |-> IntValue(15), CODE |-> <<"x", "=", "1">>],
                         [CODE |-> <<"x", "=", "1">>] } }
            \cup { [id |-> 3, label |-> "METHOD", name |-> "g",
                    properties |-> [FILENAME |-> FileB,
                                    LINE_NUMBER |-> IntValue(11),
                                    CODE |-> <<"g", "(", ")">>]] }
  IN { <<a, b, c>> : a \in n1, b \in n2, c \in n3 }
       \cup { <<a, b>> : a \in n1, b \in n2 }

FormatEdgeLists ==
  { << [src |-> 1, dst |-> 2, label |-> "AST"],
       [src |-> 1, dst |-> 3, label |-> "AST"] >>,
    << [src |-> 1, dst |-> 2, label |-> "AST"] >> }

FormatRecords ==
  [has_nodes : {TRUE}, nodes : FormatNodeLists,
   has_edges : {TRUE}, edges : FormatEdgeLists]

\* A source file of n lines as readlines() returns it: line i reads "l<i>"
\* followed by trailing and the line end.
SourceLines(n, trailing) ==
  [i \in 1..n |-> <<"l">> \o Digits(i) \o trailing \o <<"\n">>]

\* The disks: no file; a.c under the source root with 11 lines; a.c under
\* its own name with 10 lines that end in a blank; a.c under the source root
\* unreadable and under its own name readable.
Disks ==
  { <<>>,
    Put(<<>>, PathJoin(SourceRoot, FileA),
        [readable |-> TRUE, lines |-> SourceLines(11, <<>>)]),
    Put(<<>>, FileA, [readable |-> TRUE, lines |-> SourceLines(10, <<" ">>)]),
    Put(Put(<<>>, PathJoin(SourceRoot, FileA), [readable |-> FALSE, lines |-> <<>>]),
        FileA, [readable |-> TRUE, lines |-> SourceLines(11, <<>>)]) }

\* The mappings passed as result_nodes: insertion-ordered, ids distinct.
ResultNodeDicts ==
  { d \in UNION { [1..n -> [id : Ids, flag : BOOLEAN]] : n \in 0..MaxId } :
      \A i, j \in DOMAIN d : d[i].id = d[j].id => i = j }

SeedNames == { <<"x">> }

FileNames == { FileA, FileB, UnknownFile, <<>> }

LineNos == {0, 10, 11, 15}

\* ------------------------------------- concurrent get_method_of_node calls
\* The threads that call get_method_of_node on the one loader with no lock.
Readers == {"r1", "r2"}

IdleReader == [pc |-> "idle"]

IdleReaders == [t \in Readers |-> IdleReader]

\* Thread t enters get_method_of_node(node_id).
ReaderCall(t) ==
  /\ loaded
  /\ readers[t].pc = "idle"
  /\ \E node_id \in Ids :
       readers' = [readers EXCEPT ![t] = [pc |-> "line59", node_id |-> node_id]]
  /\ UNCHANGED <<agent, opens, disk, file_cache, record, graph,
                 node_to_method, loaded, svc, ret>>

\* Line 59: one read of the cache, the membership test.
ReaderCheck(t) ==
  /\ readers[t].pc = "line59"
  /\ readers' = [readers EXCEPT ![t].pc =
                   IF readers[t].node_id \in DOMAIN node_to_method
                   THEN "line60" ELSE "line62"]
  /\ UNCHANGED <<agent, opens, disk, file_cache, record, graph,
                 node_to_method, loaded, svc, ret>>

\* Line 60: one read of the cache, the entry; the call returns it.
ReaderHit(t) ==
  /\ readers[t].pc = "line60"
  /\ readers' = [readers EXCEPT ![t] =
                   [pc |-> "returned", node_id |-> readers[t].node_id,
                    val |-> [kind |-> "value",
                             id |-> node_to_method[readers[t].node_id]]]]
  /\ UNCHANGED <<agent, opens, disk, file_cache, record, graph,
                 node_to_method, loaded, svc, ret>>

\* Lines 62-79: the ascent, on the thread's own queue and visited set and the
\* graph that nobody writes; it ends before the write of line 72, at the
\* return of line 81 or in the KeyError of line 69.
ReaderAscend(t) ==
  /\ readers[t].pc = "line62"
  /\ LET r == OwnerWhile(graph, <<readers[t].node_id>>, {})
     IN readers' = [readers EXCEPT ![t] =
                      IF r.kind = "value"
                      THEN [pc |-> "line72", node_id |-> readers[t].node_id,
                            curr |-> r.id]
                      ELSE [pc |-> "returned", node_id |-> readers[t].node_id,
                            val |-> r]]
  /\ UNCHANGED <<agent, opens, disk, file_cache, record, graph,
                 node_to_method, loaded, svc, ret>>

\* Lines 72-73: one write of the cache; the call returns curr.
ReaderWrite(t) ==
  /\ readers[t].pc = "line72"
  /\ node_to_method' = Memo(node_to_method, readers[t].node_id, readers[t].curr)
  /\ readers' = [readers EXCEPT ![t] =
                   [pc |-> "returned", node_id |-> readers[t].node_id,
                    val |-> [kind |-> "value", id |-> readers[t].curr]]]
  /\ UNCHANGED <<agent, opens, disk, file_cache, record, graph, loaded, svc,
                 ret>>

\* The thread takes the returned value and is ready for its next call.
ReaderReturn(t) ==
  /\ readers[t].pc = "returned"
  /\ readers' = [readers EXCEPT ![t] = IdleReader]
  /\ UNCHANGED <<agent, opens, disk, file_cache, record, graph,
                 node_to_method, loaded, svc, ret>>

\* --------------------------------------------------- LeadAgent.run_loop
\* What response.text of the Lead model can be, as json.loads and the tests
\* of lines 221-227 tell it apart: text that is no JSON; the empty list; JSON
\* that is neither an object nor a list of one (a number, a string, null, a
\* list of those); an object or a non-empty list that starts with an object,
\* with the value of its "command".
Commands == {"FINISH", "ASK_SCOUT", "OTHER"}

Answers ==
  [json : {"invalid", "empty_list", "scalar"}, command : {"none"}]
    \cup [json : {"object", "list"}, command : Commands]

IdleAgent == [pc |-> "idle"]

\* lead.run_loop(user_query, max_turns): the kick-off message of line 212 is
\* answered.
RunLoop ==
  /\ agent.pc = "idle"
  /\ \E max_turns \in 1..MaxTurns, response \in Answers :
       agent' = [pc |-> "loop", max_turns |-> max_turns, turn |-> 0,
                 response |-> response, iterations |-> 0, scouts |-> 0,
                 scout_turns |-> {}]
  /\ UNCHANGED <<readers, opens, disk, file_cache, record, graph,
                 node_to_method, loaded, svc, ret>>

\* The end of a run: a returned result or the exception that left run_loop.
Returned(result) ==
  [agent EXCEPT !.pc = "returned", !.iterations = @ + 1] @@ [result |-> result]

Raised(exception) ==
  [agent EXCEPT !.pc = "raised", !.iterations = @ + 1] @@ [result |-> exception]

\* The next iteration of the for loop, with the response it will parse.
NextTurn(response) ==
  [agent EXCEPT !.turn = @ + 1, !.iterations = @ + 1, !.response = response]

\* One iteration of the for loop (lines 214-276).
Turn ==
  /\ agent.pc = "loop"
  /\ agent.turn < agent.max_turns
  /\ LET r == agent.response
     IN \/ /\ r.json = "invalid"                      \* lines 273-276
           /\ \E response \in Answers : agent' = NextTurn(response)
        \/ /\ r.json = "empty_list"                   \* line 223
           /\ agent' = Raised("ValueError")
        \/ /\ r.json = "scalar"                       \* line 225
           /\ agent' = Raised("AttributeError")
        \/ /\ r.json \in {"object", "list"}
           /\ r.command = "FINISH"                    \* lines 232-233
           /\ agent' = Returned("payload")
        \/ /\ r.json \in {"object", "list"}
           /\ r.command # "FINISH"
           /\ agent.turn = agent.max_turns - 1        \* lines 237-256
           /\ \E forced \in Answers :
                agent' = Returned(IF forced.json \in {"object", "list"}
                                  THEN "forced payload" ELSE "forced text")
        \/ /\ r.json \in {"object", "list"}
           /\ r.command = "ASK_SCOUT"                 \* lines 259-271
           /\ agent.turn # agent.max_turns - 1
           /\ \E response \in Answers :
                agent' = [NextTurn(response) EXCEPT
                            !.scouts = @ + 1,
                            !.scout_turns = @ \cup {agent.turn}]
        \/ /\ r.json \in {"object", "list"}
           /\ r.command = "OTHER"                     \* no branch is taken
           /\ agent.turn # agent.max_turns - 1
           /\ agent' = NextTurn(r)
  /\ UNCHANGED <<readers, opens, disk, file_cache, record, graph,
                 node_to_method, loaded, svc, ret>>

\* The for loop is exhausted (line 278).
TimedOut ==
  /\ agent.pc = "loop"
  /\ agent.turn = agent.max_turns
  /\ agent' = [agent EXCEPT !.pc = "returned"]
               @@ [result |-> "Investigation timed out."]
  /\ UNCHANGED <<readers, opens, disk, file_cache, record, graph,
                 node_to_method, loaded, svc, ret>>

\* The caller takes the outcome; the agent can be asked again.
RunLoopDone ==
  /\ agent.pc \in {"returned", "raised"}
  /\ agent' = IdleAgent
  /\ UNCHANGED <<readers, opens, disk, file_cache, record, graph,
                 node_to_method, loaded, svc, ret>>

\* --------------------------------------------------------------- the system
Init ==
  /\ record \in Records
  /\ graph = DiGraph
  /\ node_to_method = <<>>
  /\ loaded = FALSE
  /\ svc = NewService
  /\ disk = <<>>
  /\ file_cache = <<>>
  /\ opens = <<>>
  /\ agent = IdleAgent
  /\ readers = IdleReaders
  /\ ret = Idle

\* loader.load()
Load ==
  /\ ret = Idle
  /\ ~loaded
  /\ graph' = LoadGraph(record)
  /\ loaded' = TRUE
  /\ ret' = [op |-> "load", val |-> [kind |-> "value"]]
  /\ UNCHANGED <<agent, readers, opens, disk, file_cache, record,
                 node_to_method, svc>>

\* Slicer(loader).slice(seed, direction, depth, edge_types)
Slice ==
  /\ ret = Idle
  /\ loaded
  /\ \E seed \in Ids, direction \in Directions, depth \in Depths,
        edge_types \in KindSets \cup {NoneArg} :
       /\ ret' = [op |-> "slice", seed |-> seed, direction |-> direction,
                  depth |-> depth, edge_types |-> edge_types,
                  val |-> slice(graph, seed, direction, depth, edge_types)]
          /\ graph' = NodeLookup(graph, seed)
  /\ UNCHANGED <<agent, readers, opens, disk, file_cache, record,
                 node_to_method, loaded, svc>>

\* loader.get_method_of_node(node_id)
GetMethodOfNode ==
  /\ ret = Idle
  /\ loaded
  /\ \E node_id \in Ids :
       LET r == get_method_of_node(graph, node_to_method, node_id)
       IN /\ ret' = [op |-> "get_method_of_node", node_id |-> node_id,
                     val |-> r.val]
          /\ node_to_method' = r.cache
          /\ graph' = IF node_id \in DOMAIN node_to_method THEN graph
                       ELSE NodeLookup(graph, node_id)
  /\ UNCHANGED <<agent, readers, opens, disk, file_cache, record, loaded, svc>>

\* CPGService(json_path)
NewCPGService ==
  /\ ret = Idle
  /\ svc.status = "constructing"
  /\ svc' = CPGService(record)
  /\ ret' = [op |-> "CPGService", val |-> [kind |-> svc'.status]]
  /\ UNCHANGED <<agent, readers, opens, disk, file_cache, record, graph,
                 node_to_method, loaded>>

\* service._trace(start_node_id, direction, edge_types, max_depth)
Trace ==
  /\ ret = Idle
  /\ svc.status = "ok"
  /\ \E seed \in Ids, direction \in TraceDirections, depth \in Depths,
        edge_types \in KindSets :
       ret' = [op |-> "trace", seed |-> seed, direction |-> direction,
               depth |-> depth, edge_types |-> edge_types,
               val |-> trace(svc, seed, direction, edge_types, depth)]
  /\ UNCHANGED <<agent, readers, opens, disk, file_cache, record, graph,
                 node_to_method, loaded, svc>>

\* service.trace_data_flow(start_node_id, direction, max_depth)
TraceDataFlow ==
  /\ ret = Idle
  /\ svc.status = "ok"
  /\ \E seed \in Ids, direction \in TraceDirections, depth \in Depths :
       ret' = [op |-> "trace_data_flow", seed |-> seed, direction |-> direction,
               depth |-> depth,
               val |-> trace_data_flow(svc, seed, direction, depth)]
  /\ UNCHANGED <<agent, readers, opens, disk, file_cache, record, graph,
                 node_to_method, loaded, svc>>

\* service.trace_control_flow(start_node_id, direction, max_depth)
TraceControlFlow ==
  /\ ret = Idle
  /\ svc.status = "ok"
  /\ \E seed \in Ids, direction \in TraceDirections, depth \in Depths :
       ret' = [op |-> "trace_control_flow", seed |-> seed,
               direction |-> direction, depth |-> depth,
               val |-> trace_control_flow(svc, seed, direction, depth)]
  /\ UNCHANGED <<agent, readers, opens, disk, file_cache, record, graph,
                 node_to_method, loaded, svc>>

\* service.summarize_neighborhood(node_id, radius)
SummarizeNeighborhood ==
  /\ ret = Idle
  /\ svc.status = "ok"
  /\ \E node_id \in Ids, radius \in Depths :
       ret' = [op |-> "summarize_neighborhood", node_id |-> node_id,
               radius |-> radius,
               val |-> summarize_neighborhood(svc, node_id, radius)]
  /\ UNCHANGED <<agent, readers, opens, disk, file_cache, record, graph,
                 node_to_method, loaded, svc>>

\* The texts searched for.
Queries == { <<>>, <<"f">>, <<"X">>, <<"=", "1">>, <<"z">> }

\* get_ground_truth(G, seed) on the loader's graph
GetGroundTruth ==
  /\ ret = Idle
  /\ loaded
  /\ \E seed \in Ids :
       ret' = [op |-> "get_ground_truth", seed |-> seed,
               val |-> GroundTruthCall(graph, seed)]
  /\ UNCHANGED <<agent, readers, opens, disk, file_cache, record, graph,
                 node_to_method, loaded, svc>>

\* service.search_codebase(query)
SearchCodebase ==
  /\ ret = Idle
  /\ svc.status = "ok"
  /\ \E query \in Queries :
       ret' = [op |-> "search_codebase", query |-> query,
               val |-> search_codebase(svc, query)]
  /\ UNCHANGED <<agent, readers, opens, disk, file_cache, record, graph,
                 node_to_method, loaded, svc>>

\* The counts after the calls went to the disk for the listed filenames.
RECURSIVE CountOpens(_, _)
CountOpens(counts, filenames) ==
  IF filenames = <<>> THEN counts
  ELSE CountOpens(Put(counts, Head(filenames),
                      DictGet(counts, Head(filenames), 0) + 1),
                  Tail(filenames))

\* formatter.format_to_string(result_nodes, seed_name)
FormatToString ==
  /\ ret = Idle
  /\ loaded
  /\ \E result_nodes \in ResultNodeDicts, seed_name \in SeedNames :
       LET r == format_to_string(graph, node_to_method, disk, file_cache,
                                 result_nodes, seed_name)
       IN /\ ret' = [op |-> "format_to_string", result_nodes |-> result_nodes,
                     seed_name |-> seed_name, val |-> r.val]
          /\ node_to_method' = r.cache
          /\ file_cache' = r.file_cache
          /\ opens' = CountOpens(opens, r.opened)
          /\ graph' = NodeLookups(graph, [i \in DOMAIN result_nodes |->
                                                  result_nodes[i].id])
  /\ UNCHANGED <<agent, readers, disk, record, loaded, svc>>

\* formatter.get_source_line(filename, line_no)
GetSourceLine ==
  /\ ret = Idle
  /\ loaded
  /\ \A f \in DOMAIN opens : opens[f] < MaxOpens
  /\ \E filename \in FileNames, line_no \in LineNos :
       LET r == get_source_line(disk, file_cache, filename, line_no)
       IN /\ ret' = [op |-> "get_source_line", filename |-> filename,
                     line_no |-> line_no, val |-> r.val]
          /\ file_cache' = r.file_cache
          /\ opens' = CountOpens(opens, IF r.opened THEN <<filename>> ELSE <<>>)
  /\ UNCHANGED <<agent, readers, disk, record, graph, node_to_method, loaded,
                 svc>>

\* Between two calls the source tree changes: files appear, vanish, change
\* or become unreadable.
ChangeDisk ==
  /\ ret = Idle
  /\ disk' \in Disks \ {disk}
  /\ UNCHANGED <<agent, readers, opens, file_cache, record, graph,
                 node_to_method, loaded, svc, ret>>

\* The client takes the returned value and is ready for its next call.
Return ==
  /\ ret # Idle
  /\ ret' = Idle
  /\ UNCHANGED <<agent, readers, opens, disk, file_cache, record, graph,
                 node_to_method, loaded, svc>>

\* The context engine: one CpgLoader and the Slicer built on it.
Next == Load \/ Slice \/ GetMethodOfNode \/ Return

Spec == Init /\ [][Next]_vars

\* The agent service: one CPGService.
NextService ==
  \/ NewCPGService
  \/ Trace
  \/ TraceDataFlow
  \/ TraceControlFlow
  \/ SummarizeNeighborhood
  \/ Return

SpecService == Init /\ [][NextService]_vars

\* Both programs on the same record.
NextBoth == Load \/ Slice \/ GetMethodOfNode \/ NewCPGService \/ Trace \/ Return

SpecBoth == Init /\ [][NextBoth]_vars

\* The loader and the formatter on a record with source positions.
InitFormat ==
  /\ record \in FormatRecords
  /\ graph = DiGraph
  /\ node_to_method = <<>>
  /\ loaded = FALSE
  /\ svc = NewService
  /\ disk \in Disks
  /\ file_cache = <<>>
  /\ opens = <<>>
  /\ agent = IdleAgent
  /\ readers = IdleReaders
  /\ ret = Idle

NextFormat == Load \/ FormatToString \/ GetSourceLine \/ Return

SpecFormat == InitFormat /\ [][NextFormat]_vars

\* One formatter whose get_source_line is called while the source tree
\* changes; the loader's record plays no part and is kept small.
InitSource ==
  /\ InitFormat
  /\ Len(record.nodes) = 2
  /\ "LINE_NUMBER" \notin DOMAIN record.nodes[1].properties
  /\ "CODE" \in DOMAIN record.nodes[2].properties

NextSource == Load \/ GetSourceLine \/ ChangeDisk \/ Return

SpecSource == InitSource /\ [][NextSource]_vars

\* The recall analysis: slices and ground truths on one loaded graph.
NextRecall == Load \/ Slice \/ GetGroundTruth \/ Return

SpecRecall == Init /\ [][NextRecall]_vars

\* The Lead agent's loop; no record is read in it.
InitAgent ==
  /\ Init
  /\ record = [has_nodes |-> FALSE, nodes |-> <<>>, has_edges |-> FALSE,
               edges |-> <<>>]

NextAgent == RunLoop \/ Turn \/ TimedOut \/ RunLoopDone

SpecAgent == InitAgent /\ [][NextAgent]_vars

\* One loader whose get_method_of_node is called by several threads.
NextReaders ==
  \/ Load
  \/ \E t \in Readers :
       \/ ReaderCall(t)
       \/ ReaderCheck(t)
       \/ ReaderHit(t)
       \/ ReaderAscend(t)
       \/ ReaderWrite(t)
       \/ ReaderReturn(t)

SpecReaders == Init /\ [][NextReaders]_vars

\* Every query of both programs on one record with source positions.
InitQueries ==
  /\ InitFormat
  /\ "LINE_NUMBER" \in DOMAIN record.nodes[1].properties
  /\ disk # <<>> /\ PathJoin(SourceRoot, FileA) \in DOMAIN disk
  /\ disk[PathJoin(SourceRoot, FileA)].readable

NextQueries ==
  \/ Load
  \/ Slice
  \/ GetMethodOfNode
  \/ FormatToString
  \/ NewCPGService
  \/ Trace
  \/ SearchCodebase
  \/ SummarizeNeighborhood
  \/ Return

SpecQueries == InitQueries /\ [][NextQueries]_vars

\* ================================================================== claims
\* What the claims say about the record, stated without the loaders.
WellFormed == record.has_nodes /\ record.has_edges

ListedIds == { record.nodes[i].id : i \in DOMAIN record.nodes }

IsDangling(e) == e.src \notin ListedIds \/ e.dst \notin ListedIds

DanglingCount == Cardinality({ i \in DOMAIN record.edges : IsDangling(record.edges[i]) })

\* The kinds of the record's edges from u to v.
RecordKinds(u, v) ==
  { record.edges[i].label :
      i \in { j \in DOMAIN record.edges :
                record.edges[j].src = u /\ record.edges[j].dst = v } }

NoParallelEdges ==
  \A i, j \in DOMAIN record.edges :
    (record.edges[i].src = record.edges[j].src
       /\ record.edges[i].dst = record.edges[j].dst) => i = j

\* G stores an edge of a kind in K from u to v.
StoredEdge(G, u, v, K) == <<u, v>> \in DOMAIN G.edge /\ G.edge[<<u, v>>] \in K

\* The nodes one hop from S, against the edges for backward, along them for
\* forward.
OneHop(G, direction, K, S) ==
  { v \in SeqToSet(G.nodes) :
      \E u \in S : IF direction = "backward" THEN StoredEdge(G, v, u, K)
                   ELSE StoredEdge(G, u, v, K) }

\* The nodes at distance at most depth from seed.
RECURSIVE Ball(_, _, _, _, _)
Ball(G, seed, direction, depth, K) ==
  IF depth = 0 THEN {seed}
  ELSE LET B == Ball(G, seed, direction, depth - 1, K)
       IN B \cup OneHop(G, direction, K, B)

SliceReturned == ret.op = "slice" /\ ret.val.kind = "value"

\* C1: for a seed of the loaded graph, the keys slice returns are exactly
\* the nodes within depth hops of the seed over the stored edges whose kind
\* is in the edge-kind set, followed against their orientation for backward
\* and along it for forward.
C1_SliceIsDepthBall ==
  SliceReturned =>
    Keys(ret.val.result_nodes)
      = Ball(graph, ret.seed, ret.direction, ret.depth,
             EffectiveEdgeTypes(ret.edge_types))

\* A slice of depth 1 that found a neighbour and left out a node two hops away.
C1_Witness ==
  /\ SliceReturned
  /\ ret.depth = 1
  /\ Cardinality(Keys(ret.val.result_nodes)) = 2
  /\ Ball(graph, ret.seed, ret.direction, 2, EffectiveEdgeTypes(ret.edge_types))
       # Keys(ret.val.result_nodes)

\* C2: when the record holds parallel edges of different kinds between the
\* seed and v, a slice of depth >= 1 contains v as soon as one of their kinds
\* is in the edge-kind set.
C2_ParallelEdgeOfAnyKindFollowed ==
  (WellFormed /\ SliceReturned /\ ret.depth >= 1) =>
    \A v \in Ids :
      LET par == IF ret.direction = "forward" THEN RecordKinds(ret.seed, v)
                 ELSE RecordKinds(v, ret.seed)
      IN (Cardinality(par) >= 2
            /\ par \cap EffectiveEdgeTypes(ret.edge_types) # {})
           => v \in Keys(ret.val.result_nodes)

\* C3: load drops the dangling edges: the graph has only listed nodes, and
\* for a record without parallel edges as many edges as the record has
\* non-dangling ones.
C3_LoadDropsDanglingEdges ==
  (WellFormed /\ loaded) =>
    /\ SeqToSet(graph.nodes) \subseteq ListedIds
    /\ NoParallelEdges =>
         Cardinality(DOMAIN graph.edge) = Len(record.edges) - DanglingCount

\* The record's non-dangling edges, in input order.
KeptEdges == SelectSeq(record.edges, LAMBDA e : ~IsDangling(e))

\* The service's edges, by node id.
ServiceEdges ==
  [i \in DOMAIN svc.es |->
     [src |-> svc.idx_to_id[svc.es[i].source],
      dst |-> svc.idx_to_id[svc.es[i].target],
      label |-> svc.es[i].label]]

\* C4: _load_graph keeps exactly the edges whose endpoints are both listed,
\* each parallel or duplicate edge with its own kind, so that the edge count
\* is the input count minus the dangling count; a well-formed record never
\* makes the constructor raise.
C4_ServiceKeepsExactlyNonDanglingEdges ==
  /\ (WellFormed /\ svc.status # "constructing") => svc.status = "ok"
  /\ svc.status = "ok" =>
       /\ ServiceEdges = KeptEdges
       /\ Len(svc.es) = Len(record.edges) - DanglingCount

\* A service loaded from a record with one dangling edge and one kept edge.
C4_Witness ==
  /\ svc.status = "ok"
  /\ DanglingCount = 1
  /\ Len(record.edges) = 2
  /\ Len(svc.es) = 1

\* C5: slice with a seed that is not a node of the graph yields NotFound: it
\* neither raises nor returns a slice.
C5_UnknownSeedIsNotFound ==
  (ret.op = "slice" /\ ~HasNode(graph, ret.seed)) => ret.val.kind = "NotFound"

\* C6: a record without the nodes key or without the edges key aborts both
\* loaders: load returns no graph and no CPGService comes to exist.
C6_MissingKeyAbortsConstruction ==
  ~WellFormed => (~loaded /\ svc.status # "ok")

\* The record's structural edges and labels.
RecordStructural(u, v) == RecordKinds(u, v) \cap {"AST", "CONTAINS"} # {}

RecordMethod(m) ==
  \E i \in DOMAIN record.nodes :
    record.nodes[i].id = m /\ record.nodes[i].label = "METHOD"

\* The ids reached from n by at most k ascents along structural record edges.
RECURSIVE Ascent(_, _)
Ascent(n, k) ==
  IF k = 0 THEN {n}
  ELSE LET A == Ascent(n, k - 1)
       IN A \cup { u \in Ids : \E v \in A : RecordStructural(u, v) }

\* The METHOD nodes at the least number of ascents from n.
NearestMethods(n) ==
  LET ks == { k \in 0..MaxId : \E m \in Ascent(n, k) : RecordMethod(m) }
  IN IF ks = {} THEN {}
     ELSE LET least == CHOOSE k \in ks : \A j \in ks : k <= j
          IN { m \in Ascent(n, least) : RecordMethod(m) }

OwnerReturned == ret.op = "get_method_of_node"

\* C7: for a node of the loaded graph get_method_of_node returns the node
\* itself when it is a METHOD, else a METHOD at the fewest ascents along the
\* record's AST or CONTAINS edges, and None when there is none; every call,
\* repeated ones included, returns that.
C7_OwnerIsNearestRecordMethod ==
  (WellFormed /\ OwnerReturned /\ HasNode(graph, ret.node_id)) =>
    IF NearestMethods(ret.node_id) = {} THEN ret.val.kind = "None"
    ELSE ret.val.kind = "value" /\ ret.val.id \in NearestMethods(ret.node_id)

\* C8: a method returned for a node is an ancestor of it along AST or CONTAINS
\* edges of the record only.
C8_OwnerOnlyViaStructuralEdges ==
  (OwnerReturned /\ ret.val.kind = "value") =>
    ret.val.id \in Ascent(ret.node_id, MaxId)

\* An owner was found for a node that another METHOD reaches through
\* non-structural edges only.
C8_Witness ==
  /\ OwnerReturned
  /\ ret.val.kind = "value"
  /\ ret.val.id # ret.node_id
  /\ \E m \in Ids :
       /\ m # ret.val.id
       /\ RecordMethod(m)
       /\ RecordKinds(m, ret.node_id) # {}
       /\ ~RecordStructural(m, ret.node_id)

TraceReturned == ret.op = "trace" /\ ret.val.kind = "value"

\* C9: a slice is contained in every slice of the same seed, direction and
\* kinds with a larger depth, and the hop targets of a trace in those of every
\* trace with a larger max_depth.
C9_DepthMonotone ==
  /\ SliceReturned =>
       \A d2 \in ret.depth..MaxDepth :
         Keys(ret.val.result_nodes)
           \subseteq Keys(slice(graph, ret.seed, ret.direction, d2,
                                ret.edge_types).result_nodes)
  /\ TraceReturned =>
       \A d2 \in ret.depth..MaxDepth :
         Targets(ret.val.trace_result)
           \subseteq Targets(trace(svc, ret.seed, ret.direction,
                                   ret.edge_types, d2).trace_result)

\* A trace of depth 1 that found a hop and that a trace of depth 2 extends.
C9_Witness ==
  /\ TraceReturned
  /\ ret.depth = 1
  /\ ret.val.trace_result # <<>>
  /\ Targets(trace(svc, ret.seed, ret.direction, ret.edge_types, 2).trace_result)
       # Targets(ret.val.trace_result)

\* C10: a slice is contained in every slice of the same seed, direction and
\* depth with a larger edge-kind set.
C10_KindMonotone ==
  SliceReturned =>
    \A K2 \in KindSets :
      EffectiveEdgeTypes(ret.edge_types) \subseteq K2 =>
        Keys(ret.val.result_nodes)
          \subseteq Keys(slice(graph, ret.seed, ret.direction, ret.depth,
                               K2).result_nodes)

\* A slice over one kind that found a neighbour and that a second kind extends.
C10_Witness ==
  /\ SliceReturned
  /\ ret.edge_types = {"REACHING_DEF"}
  /\ Cardinality(Keys(ret.val.result_nodes)) = 2
  /\ Cardinality(Keys(slice(graph, ret.seed, ret.direction, ret.depth,
                            {"REACHING_DEF", "CFG"}).result_nodes)) = 3

\* C11: slice and _trace enqueue each node at most once, so that for any
\* depth bound and any graph, cyclic ones included, the number of dequeues of
\* a call is at most the number of nodes.
C11_DequeuesBoundedByNodeCount ==
  /\ SliceReturned => ret.val.dequeues <= Len(graph.nodes)
  /\ TraceReturned => ret.val.dequeues <= svc.vcount

\* A slice at the largest depth that walked through a node with a self-loop
\* of a followed kind and dequeued every node of the graph.
C11_Witness ==
  /\ SliceReturned
  /\ ret.depth = MaxDepth
  /\ ret.val.dequeues = Len(graph.nodes)
  /\ \E u \in Keys(ret.val.result_nodes) :
       /\ u # ret.seed
       /\ StoredEdge(graph, u, u, EffectiveEdgeTypes(ret.edge_types))

\* C12: the result of a slice has at most as many entries as the graph has
\* nodes, and in the hop list of a trace no node is a target twice and the
\* seed is never a target.
C12_NoSelfRevisit ==
  /\ SliceReturned =>
       /\ Len(ret.val.result_nodes) <= Len(graph.nodes)
       /\ Cardinality(Keys(ret.val.result_nodes)) = Len(ret.val.result_nodes)
  /\ TraceReturned =>
       /\ Cardinality(Targets(ret.val.trace_result)) = Len(ret.val.trace_result)
       /\ ret.seed \notin Targets(ret.val.trace_result)

\* A trace at the largest depth that reached its only target over two
\* parallel edges, both of followed kinds.
C12_Witness ==
  /\ TraceReturned
  /\ ret.direction = "OUT"
  /\ ret.depth = MaxDepth
  /\ Len(ret.val.trace_result) = 1
  /\ LET t == ret.val.trace_result[1].target_id
     IN Len(SelectSeq(KeptEdges, LAMBDA e : /\ e.src = ret.seed
                                            /\ e.dst = t
                                            /\ e.label \in ret.edge_types)) = 2

\* C13: for a seed of the graph slice returns a mapping, whatever the
\* direction, depth and edge-kind set, and the seed is a key of it with flag
\* False.
C13_SeedIncluded ==
  (ret.op = "slice" /\ HasNode(graph, ret.seed)) =>
    /\ ret.val.kind = "value"
    /\ \E i \in DOMAIN ret.val.result_nodes :
         ret.val.result_nodes[i] = [id |-> ret.seed, flag |-> FALSE]

\* A slice of depth 0 that returned the seed alone although the seed has a
\* neighbour of a followed kind.
C13_Witness ==
  /\ SliceReturned
  /\ ret.depth = 0
  /\ ret.val.result_nodes = << [id |-> ret.seed, flag |-> FALSE] >>
  /\ Ball(graph, ret.seed, ret.direction, 1, EffectiveEdgeTypes(ret.edge_types))
       # {ret.seed}

\* C14: slice called with an empty edge_types collection on a seed of the
\* graph raises nothing and returns exactly {seed: False}, for every direction
\* and depth.
C14_EmptyKindSetGivesSeedOnly ==
  (ret.op = "slice" /\ ret.edge_types = {} /\ HasNode(graph, ret.seed)) =>
    /\ ret.val.kind = "value"
    /\ ret.val.result_nodes = << [id |-> ret.seed, flag |-> FALSE] >>

\* A slice with no edge kinds and depth >= 1 from a seed that has a
\* REACHING_DEF neighbour, which the default kinds would follow.
C14_Witness ==
  /\ SliceReturned
  /\ ret.edge_types = {}
  /\ ret.depth >= 1
  /\ Ball(graph, ret.seed, ret.direction, 1, DefaultEdgeTypes) # {ret.seed}
  /\ ret.val.result_nodes = << [id |-> ret.seed, flag |-> FALSE] >>

\* The listed nodes one hop from S over the record's kept edges of a kind in
\* K: along the edges for "OUT", against them for any other direction.
RecordHop(direction, K, S) ==
  { v \in ListedIds :
      \E u \in S : \E i \in DOMAIN KeptEdges :
        /\ KeptEdges[i].label \in K
        /\ IF direction = "OUT"
           THEN KeptEdges[i].src = u /\ KeptEdges[i].dst = v
           ELSE KeptEdges[i].src = v /\ KeptEdges[i].dst = u }

\* The listed nodes at distance at most depth from seed in the multigraph of
\* the record's kept edges.
RECURSIVE RecordBall(_, _, _, _)
RecordBall(seed, direction, depth, K) ==
  IF depth = 0 THEN {seed}
  ELSE LET B == RecordBall(seed, direction, depth - 1, K)
       IN B \cup RecordHop(direction, K, B)

\* The kept edges from u to v, in input order.
ParallelEdges(u, v) == SelectSeq(KeptEdges, LAMBDA e : e.src = u /\ e.dst = v)

\* C15: _trace discovers v from a dequeued node u as soon as one of the
\* parallel edges between them in the traversal orientation has a kind in the
\* edge-kind set, whatever its position among them: the hop targets are
\* exactly the nodes other than the seed within max_depth hops over such
\* edges, each with one hop, whose kind is in the set.
C15_AnyParallelEdgeDiscovers ==
  TraceReturned =>
    /\ Targets(ret.val.trace_result)
         = RecordBall(ret.seed, ret.direction, ret.depth, ret.edge_types)
             \ {ret.seed}
    /\ Cardinality(Targets(ret.val.trace_result)) = Len(ret.val.trace_result)
    /\ \A i \in DOMAIN ret.val.trace_result :
         ret.val.trace_result[i].edge \in ret.edge_types

\* A trace that discovered its target over the second of two parallel edges,
\* the first one being of a kind outside the set.
C15_Witness ==
  /\ TraceReturned
  /\ ret.direction = "OUT"
  /\ Len(ret.val.trace_result) = 1
  /\ LET hop == ret.val.trace_result[1]
         par == ParallelEdges(ret.seed, hop.target_id)
     IN /\ Len(par) = 2
        /\ par[1].label \notin ret.edge_types
        /\ par[2].label \in ret.edge_types
        /\ hop.edge = par[2].label

DataFlowReturned == ret.op = "trace_data_flow" /\ ret.val.kind = "value"

ControlFlowReturned == ret.op = "trace_control_flow" /\ ret.val.kind = "value"

\* C16: every hop of trace_data_flow has a kind in {REACHING_DEF,
\* PARAMETER_LINK, ARGUMENT, REF, ALIAS_OF} and every hop of trace_control_flow
\* a kind in {CALL, CFG, DOMINATE, CDG}, and the targets are the nodes reached
\* over edges of those kinds only.
C16_AdaptersUseFixedKindSets ==
  /\ DataFlowReturned =>
       LET K == {"REACHING_DEF", "PARAMETER_LINK", "ARGUMENT", "REF", "ALIAS_OF"}
       IN /\ \A i \in DOMAIN ret.val.trace_result :
               ret.val.trace_result[i].edge \in K
          /\ Targets(ret.val.trace_result)
               = RecordBall(ret.seed, ret.direction, ret.depth, K) \ {ret.seed}
  /\ ControlFlowReturned =>
       LET K == {"CALL", "CFG", "DOMINATE", "CDG"}
       IN /\ \A i \in DOMAIN ret.val.trace_result :
               ret.val.trace_result[i].edge \in K
          /\ Targets(ret.val.trace_result)
               = RecordBall(ret.seed, ret.direction, ret.depth, K) \ {ret.seed}

\* A data-flow trace of depth 2 that found one target over a REACHING_DEF edge
\* and left out a node that the target reaches over a CFG edge only.
C16_Witness ==
  /\ DataFlowReturned
  /\ ret.direction = "OUT"
  /\ ret.depth = 2
  /\ Len(ret.val.trace_result) = 1
  /\ ret.val.trace_result[1].edge = "REACHING_DEF"
  /\ \E v \in ListedIds \ (Targets(ret.val.trace_result) \cup {ret.seed}) :
       \E i \in DOMAIN KeptEdges :
         /\ KeptEdges[i].src = ret.val.trace_result[1].target_id
         /\ KeptEdges[i].dst = v
         /\ KeptEdges[i].label = "CFG"

\* The number of hops from the seed to v over kept edges of a kind in K.
RecordDist(seed, direction, K, v) ==
  CHOOSE k \in 0..MaxId :
    /\ v \in RecordBall(seed, direction, k, K)
    /\ \A j \in 0..(k - 1) : v \notin RecordBall(seed, direction, j, K)

\* The listed nodes that carry a name.
NodesNamed(name) ==
  { record.nodes[i].id :
      i \in { j \in DOMAIN record.nodes : record.nodes[j].name = name } }

CalledId == IF ret.op = "summarize_neighborhood" THEN ret.node_id ELSE ret.seed

ServiceCallReturned ==
  ret.op \in {"trace_data_flow", "trace_control_flow", "summarize_neighborhood"}

\* C18: trace_data_flow, trace_control_flow and summarize_neighborhood return
\* "Node not found." exactly when the id is not a node of the graph and never
\* raise; for a known seed with nothing reachable the adapters return an empty
\* hop list, which is a different value.
C18_UnknownIdIsNotFound ==
  ServiceCallReturned =>
    /\ ret.val.kind \in {"Node not found.", "value"}
    /\ ret.val.kind = "Node not found." <=> CalledId \notin ListedIds
    /\ (/\ ret.op # "summarize_neighborhood"
        /\ CalledId \in ListedIds
        /\ RecordBall(ret.seed, ret.direction, ret.depth,
                      IF ret.op = "trace_data_flow" THEN DataFlowEdgeTypes
                      ELSE ControlFlowEdgeTypes) = {ret.seed})
         => (ret.val.kind = "value" /\ ret.val.trace_result = <<>>)

\* A data-flow trace from an id that the record names only as an endpoint of
\* an edge and not as a node.
C18_Witness ==
  /\ ret.op = "trace_data_flow"
  /\ ret.seed \notin ListedIds
  /\ \E i \in DOMAIN record.edges :
       /\ record.edges[i].src = ret.seed
       /\ record.edges[i].label = "REACHING_DEF"
  /\ ret.val.kind = "Node not found."

\* The listed nodes within radius hops of the centre over the record's kept
\* edges of any kind, followed in either direction.
RECURSIVE UndirectedBall(_, _)
UndirectedBall(center, radius) ==
  IF radius = 0 THEN {center}
  ELSE LET B == UndirectedBall(center, radius - 1)
       IN B \cup RecordHop("OUT", Kinds, B) \cup RecordHop("IN", Kinds, B)

SummaryReturned == ret.op = "summarize_neighborhood" /\ ret.val.kind = "value"

NeighborIds(neighbors) == { neighbors[i].id : i \in DOMAIN neighbors }

\* C19: the neighbours summarize_neighborhood lists are exactly the nodes
\* other than the centre within radius hops of it, edges followed in either
\* direction and kinds ignored, each node once.
C19_SummaryIsUndirectedBall ==
  SummaryReturned =>
    /\ NeighborIds(ret.val.neighbors)
         = UndirectedBall(ret.node_id, ret.radius) \ {ret.node_id}
    /\ Cardinality(NeighborIds(ret.val.neighbors)) = Len(ret.val.neighbors)

\* A summary of radius 2 whose second neighbour is reached along an edge out
\* of the centre and then against an edge of another kind.
C19_Witness ==
  /\ SummaryReturned
  /\ ret.radius = 2
  /\ Len(ret.val.neighbors) = 2
  /\ \E u, v \in NeighborIds(ret.val.neighbors) :
       /\ u # v
       /\ \E i, j \in DOMAIN KeptEdges :
            /\ KeptEdges[i] = [src |-> ret.node_id, dst |-> u, label |-> "AST"]
            /\ KeptEdges[j] = [src |-> v, dst |-> u, label |-> "CFG"]

FormatReturned == ret.op = "format_to_string" /\ ret.val.kind = "value"

\* The lines of a text: the pieces between its line ends.
RECURSIVE TextLines(_, _)
TextLines(text, line) ==
  IF text = <<>> THEN <<line>>
  ELSE IF Head(text) = "\n" THEN <<line>> \o TextLines(Tail(text), <<>>)
  ELSE TextLines(Tail(text), Append(line, Head(text)))

HasPrefix(s, p) == Len(p) <= Len(s) /\ SubSeq(s, 1, Len(p)) = p

HasSuffix(s, p) == Len(p) <= Len(s) /\ SubSeq(s, Len(s) - Len(p) + 1, Len(s)) = p

\* The lines of the text that render line_no of filename: those in the block
\* under the file's header that start with the line number.
RenderedLines(text, filename, line_no) ==
  LET lines == TextLines(text, <<>>)
      header == <<"F", "i", "l", "e", ":", " ">> \o <<Backtick>> \o filename \o <<Backtick>>
      fence == <<Backtick, Backtick, Backtick>>
  IN { i \in DOMAIN lines :
         /\ HasPrefix(lines[i], Format4d(line_no) \o <<" ", "|", " ">>)
         /\ \E h \in 1..(i - 1) :
              /\ lines[h] = header
              /\ \A j \in (h + 1)..(i - 1) : lines[j] # fence }

\* The file and the line format_to_string groups a slice node under.
ItemFile(nid) ==
  LET owner == get_method_of_node(graph, node_to_method, nid).val
  IN IF Truthy(owner)
     THEN DictGet(NodeProps(graph, owner.id), "FILENAME", UnknownFile)
     ELSE UnknownFile

ItemLine(nid) == PyInt(NodeProps(graph, nid).LINE_NUMBER)

\* The positions of the mapping whose node has a line number.
Positioned(result_nodes) ==
  { i \in DOMAIN result_nodes :
      "LINE_NUMBER" \in DOMAIN NodeProps(graph, result_nodes[i].id) }

\* The positions grouped on the same (filename, line) as position i.
SameLine(result_nodes, i) ==
  { j \in Positioned(result_nodes) :
      /\ ItemFile(result_nodes[j].id) = ItemFile(result_nodes[i].id)
      /\ ItemLine(result_nodes[j].id) = ItemLine(result_nodes[i].id) }

MayAlias(seed_name) == <<" ", "/", "/", " ", "M", "a", "y", " ", "a", "l", "i", "a", "s", " ">> \o seed_name

\* C20: the flag of a rendered (filename, line) is the OR of the flags of the
\* slice nodes grouped on it: the line is rendered with the "May alias <seed>"
\* annotation if and only if at least one of its nodes is flagged, in whatever
\* order the mapping lists them.
C20_LineFlagIsOrOfNodeFlags ==
  FormatReturned =>
    \A i \in Positioned(ret.result_nodes) :
      LET lines == TextLines(ret.val.text, <<>>)
          rendered == RenderedLines(ret.val.text, ItemFile(ret.result_nodes[i].id),
                                    ItemLine(ret.result_nodes[i].id))
          flagged == \E j \in SameLine(ret.result_nodes, i) :
                       ret.result_nodes[j].flag
      IN /\ rendered # {}
         /\ \A r \in rendered :
              HasSuffix(lines[r], MayAlias(ret.seed_name)) <=> flagged

\* The files format_to_string groups the mapping's nodes under, and the line
\* numbers it groups under a file.
GroupedFiles(result_nodes) ==
  { ItemFile(result_nodes[i].id) : i \in Positioned(result_nodes) }

GroupedLines(result_nodes, filename) ==
  { ItemLine(result_nodes[i].id) :
      i \in { j \in Positioned(result_nodes) :
                ItemFile(result_nodes[j].id) = filename } }

Marker == <<" ", " ", ".", ".", ".">>

\* What the block of a file has to show for the ascending line numbers ls:
\* each number once, and a marker before a number that does not follow its
\* predecessor directly.
RECURSIVE ExpectedBlock(_, _)
ExpectedBlock(ls, i) ==
  IF i > Len(ls) THEN <<>>
  ELSE (IF i > 1 /\ ls[i] > ls[i - 1] + 1 THEN << [marker |-> TRUE, line |-> 0] >>
        ELSE <<>>)
       \o << [marker |-> FALSE, line |-> ls[i]] >>
       \o ExpectedBlock(ls, i + 1)

\* The lines of the text between the opening fence under the header of
\* filename and the closing fence.
BlocksOf(text, filename) ==
  LET lines == TextLines(text, <<>>)
      header == <<"F", "i", "l", "e", ":", " ">> \o <<Backtick>> \o filename \o <<Backtick>>
      fence == <<Backtick, Backtick, Backtick>>
  IN { SubSeq(lines, h + 2, e - 1) :
         h \in { i \in DOMAIN lines : lines[i] = header },
         e \in { i \in DOMAIN lines :
                   /\ lines[i] = fence
                   /\ \E h2 \in 1..(i - 2) :
                        /\ lines[h2] = header
                        /\ \A j \in (h2 + 1)..(i - 1) : lines[j] # fence } }

ShowsBlock(block, expected) ==
  /\ Len(block) = Len(expected)
  /\ \A i \in DOMAIN block :
       IF expected[i].marker THEN block[i] = Marker
       ELSE HasPrefix(block[i], Format4d(expected[i].line) \o <<" ", "|", " ">>)

\* C21: for each file the text has one block; it shows every included line
\* once, in ascending order, with one marker between two consecutive included
\* lines that are not adjacent, none between adjacent ones and none before the
\* first line.
C21_LinesAscendingWithElision ==
  FormatReturned =>
    \A filename \in GroupedFiles(ret.result_nodes) :
      LET blocks == BlocksOf(ret.val.text, filename)
      IN /\ Cardinality(blocks) = 1
         /\ \A block \in blocks :
              ShowsBlock(block,
                         ExpectedBlock(SortedInts(GroupedLines(ret.result_nodes,
                                                               filename)), 1))

\* Nodes on lines 10, 11 and 15 of a.c, listed in another order, rendered as
\* 10, 11, marker, 15.
C21_Witness ==
  /\ FormatReturned
  /\ Len(ret.result_nodes) = 3
  /\ ret.result_nodes[1].id = 3
  /\ GroupedFiles(ret.result_nodes) = {FileA}
  /\ GroupedLines(ret.result_nodes, FileA) = {10, 11, 15}
  /\ \E block \in BlocksOf(ret.val.text, FileA) :
       /\ Len(block) = 4
       /\ HasPrefix(block[1], Format4d(10))
       /\ HasPrefix(block[2], Format4d(11))
       /\ block[3] = Marker
       /\ HasPrefix(block[4], Format4d(15))

\* The source text of line line_no of filename on the disk, if there is one:
\* the file is looked for under the source root and then under its own name,
\* it has to be readable and to have the line.
SourcePath(filename) ==
  IF PathJoin(SourceRoot, filename) \in DOMAIN disk
  THEN PathJoin(SourceRoot, filename)
  ELSE filename

SourceAvailable(filename, line_no) ==
  /\ filename \notin {<<>>, UnknownFile}
  /\ SourcePath(filename) \in DOMAIN disk
  /\ disk[SourcePath(filename)].readable
  /\ line_no \in DOMAIN disk[SourcePath(filename)].lines

\* The CODE texts of the mapping's nodes grouped on (filename, line_no), "" for
\* a node without CODE, and the longest of them.
CodesOnLine(result_nodes, filename, line_no) ==
  { DictGet(NodeProps(graph, result_nodes[i].id), "CODE", <<>>) :
      i \in { j \in Positioned(result_nodes) :
                /\ ItemFile(result_nodes[j].id) = filename
                /\ ItemLine(result_nodes[j].id) = line_no } }

LongestCodes(result_nodes, filename, line_no) ==
  LET codes == CodesOnLine(result_nodes, filename, line_no)
  IN { c \in codes : \A c2 \in codes : Len(c2) <= Len(c) }

\* C22: format_to_string returns a text for every mapping over nodes of the
\* graph, whatever the disk holds; a line whose source is missing, unreadable
\* or too short is rendered with a longest CODE of its nodes (the empty text
\* when none has CODE), and a line whose source is available with the source
\* line, its trailing blanks removed.
C22_FallbackToLongestCode ==
  (/\ ret.op = "format_to_string"
   /\ \A i \in DOMAIN ret.result_nodes : HasNode(graph, ret.result_nodes[i].id)) =>
    /\ ret.val.kind = "value"
    /\ \A filename \in GroupedFiles(ret.result_nodes) :
         \A line_no \in GroupedLines(ret.result_nodes, filename) :
           LET lines == TextLines(ret.val.text, <<>>)
               head == Format4d(line_no) \o <<" ", "|", " ">>
               codes == IF SourceAvailable(filename, line_no)
                        THEN { rstrip(disk[SourcePath(filename)].lines[line_no]) }
                        ELSE LongestCodes(ret.result_nodes, filename, line_no)
           IN \A r \in RenderedLines(ret.val.text, filename, line_no) :
                \E c \in codes :
                  lines[r] \in { head \o c, head \o c \o MayAlias(ret.seed_name) }

\* The file of line 10 exists but cannot be read, and the line is rendered
\* with the CODE of the second of its two nodes, which is the longer one.
C22_Witness ==
  /\ FormatReturned
  /\ PathJoin(SourceRoot, FileA) \in DOMAIN disk
  /\ ~disk[PathJoin(SourceRoot, FileA)].readable
  /\ Len(ret.result_nodes) = 2
  /\ ret.result_nodes[1].id = 2
  /\ ret.result_nodes[2].id = 1
  /\ CodesOnLine(ret.result_nodes, FileA, 10) = { <<"x">>, <<"f", "(", ")">> }
  /\ \E r \in RenderedLines(ret.val.text, FileA, 10) :
       HasPrefix(TextLines(ret.val.text, <<>>)[r],
                 Format4d(10) \o <<" ", "|", " ", "f", "(", ")">>)

SourceLineReturned == ret.op = "get_source_line"

\* What the cached outcome of a filename gives for a line number.
FromCache(filename, line_no) ==
  IF /\ filename \in DOMAIN file_cache
     /\ file_cache[filename].kind = "lines"
     /\ line_no \in DOMAIN file_cache[filename].lines
  THEN [kind |-> "value", text |-> rstrip(file_cache[filename].lines[line_no])]
  ELSE NoneValue

\* C27: across the calls of get_source_line on one formatter, whatever happens
\* to the files meanwhile, the disk is gone to at most once for each filename;
\* the outcome of that attempt, the lines or None, stays in the cache
\* unchanged and is what every call answers from; a call returns a line or
\* None and never raises.
C27_EachFileReadAtMostOnce ==
  /\ [](\A f \in DOMAIN opens : opens[f] <= 1)
  /\ [](SourceLineReturned =>
          /\ ret.val.kind \in {"value", "None"}
          /\ ret.val = FromCache(ret.filename, ret.line_no))
  /\ [][\A f \in DOMAIN file_cache :
          f \in DOMAIN file_cache' /\ file_cache'[f] = file_cache[f]]_vars

\* A call for a.c answers None from the cache, which holds the failure of the
\* one attempt, although the file is on the disk by now with the line asked
\* for.
C27_Witness ==
  /\ SourceLineReturned
  /\ ret.filename = FileA
  /\ ret.val = NoneValue
  /\ file_cache[FileA] = NoneValue
  /\ opens[FileA] = 1
  /\ SourceAvailable(FileA, ret.line_no)

\* C23: no query mutates what was loaded.  Once load has returned, no step -
\* a call of slice, get_method_of_node or format_to_string - changes the
\* graph: its node list, node attributes, adjacency and edge labels stay as
\* they are; once the CPGService is constructed, no call of _trace,
\* search_codebase or summarize_neighborhood changes any of its tables or
\* edges.  The ownership cache and the source-file cache are free to change.
C23_QueriesLeaveGraphUnchanged ==
  /\ [][loaded => graph' = graph]_vars
  /\ [][svc.status = "ok" => svc' = svc]_vars

\* Queries of both programs have run - the two caches are filled, so
\* format_to_string was among them - and a summarize_neighborhood call has
\* just returned; the graph and the service are as they were built.
C23_Witness ==
  /\ ret.op = "summarize_neighborhood"
  /\ ret.val.kind = "value"
  /\ node_to_method # <<>>
  /\ file_cache # <<>>
  /\ graph = LoadGraph(record)
  /\ svc = CPGService(record)

C25_EveryResultIsMemoized ==
  (ret.op = "get_method_of_node" /\ ret.val.kind \in {"value", "None"}) =>
    /\ ret.node_id \in DOMAIN node_to_method
    /\ ret.val.kind = "value" => node_to_method[ret.node_id] = ret.val.id

\* What a call of get_method_of_node for n returns when no other call runs.
SequentialOwner(n) == OwnerWhile(graph, <<n>>, {})

\* C26: with several threads in get_method_of_node at once, interleaved at
\* each single read and write of the cache, every call returns what a
\* sequential call for its node returns, and every entry of the cache is the
\* sequentially computed owner of its node.
C26_ConcurrentReadersAgreeWithSequential ==
  /\ \A t \in Readers :
       readers[t].pc = "returned" =>
         readers[t].val = SequentialOwner(readers[t].node_id)
  /\ \A n \in DOMAIN node_to_method :
       SequentialOwner(n) = [kind |-> "value", id |-> node_to_method[n]]

\* Both threads missed the cache for the same node, which is not a METHOD; one
\* has written its entry and returned, the other is about to write the entry
\* again.
C26_Witness ==
  /\ readers["r1"].pc = "returned"
  /\ readers["r2"].pc = "line72"
  /\ readers["r1"].node_id = readers["r2"].node_id
  /\ readers["r1"].val = [kind |-> "value", id |-> readers["r2"].curr]
  /\ readers["r1"].node_id # readers["r2"].curr
  /\ readers["r1"].node_id \in DOMAIN node_to_method

\* The part of the ground truth of the returned call's seed that a backward
\* slice of depth d with the call's edge kinds retrieves.
Retrieved(d) ==
  get_ground_truth(graph, ret.seed)
    \cap Keys(slice(graph, ret.seed, "backward", d, ret.edge_types).result_nodes)

\* C28: a backward slice whose edge kinds include REACHING_DEF contains the
\* whole of get_ground_truth(graph, seed) once its depth is at least the number
\* of nodes of the graph minus one, and what it retrieves of the ground truth
\* at a smaller depth is part of what it retrieves at the depth called with.
C28_BackwardSliceReachesGroundTruth ==
  (/\ SliceReturned
   /\ ret.direction = "backward"
   /\ "REACHING_DEF" \in EffectiveEdgeTypes(ret.edge_types)) =>
    /\ ret.depth >= Len(graph.nodes) - 1 =>
         get_ground_truth(graph, ret.seed) \subseteq Keys(ret.val.result_nodes)
    /\ \A d \in 0..ret.depth : Retrieved(d) \subseteq Retrieved(ret.depth)

\* A graph of three nodes in a REACHING_DEF chain: the slice of depth 2 from
\* its end holds all three, the slice of depth 1 misses one.
C28_Witness ==
  /\ SliceReturned
  /\ ret.direction = "backward"
  /\ ret.edge_types = {"REACHING_DEF"}
  /\ ret.depth = 2
  /\ Len(graph.nodes) = 3
  /\ Cardinality(get_ground_truth(graph, ret.seed)) = 3
  /\ Keys(ret.val.result_nodes) = get_ground_truth(graph, ret.seed)
  /\ Cardinality(Retrieved(1)) = 2

\* The record has both keys, no dangling edge and no two edges on the same
\* ordered pair.
SimpleRecord ==
  /\ record.has_nodes /\ record.has_edges
  /\ DanglingCount = 0
  /\ \A i, j \in DOMAIN record.edges :
       (record.edges[i].src = record.edges[j].src
          /\ record.edges[i].dst = record.edges[j].dst) => i = j

\* The slice direction that answers to a trace direction, and back.
SliceDirection(direction) == IF direction = "OUT" THEN "forward" ELSE "backward"

TraceDirection(direction) == IF direction = "forward" THEN "OUT" ELSE "IN"

\* {seed} with the target ids of a hop list.
SeedAndTargets(seed, hops) == {seed} \cup { hops[i].target_id : i \in DOMAIN hops }

\* C29: on a record with no dangling edge and no two edges on one ordered
\* pair, loaded by both programs, for every seed of the graph, every depth and
\* every edge-kind set, the keys of slice(seed, 'forward', d, K) are the seed
\* with the target ids of _trace(seed, 'OUT', K, d), and the keys of the
\* 'backward' slice are the seed with the target ids of the 'IN' trace.
C29_SliceAndTraceAgreeOnSimpleRecords ==
  (SimpleRecord /\ loaded /\ svc.status = "ok") =>
    /\ SliceReturned =>
         LET K == EffectiveEdgeTypes(ret.edge_types)
             t == trace(svc, ret.seed, TraceDirection(ret.direction), K,
                        ret.depth)
         IN /\ t.kind = "value"
            /\ Keys(ret.val.result_nodes) = SeedAndTargets(ret.seed, t.trace_result)
    /\ TraceReturned =>
         LET r == slice(graph, ret.seed, SliceDirection(ret.direction),
                        ret.depth, ret.edge_types)
         IN /\ r.kind = "value"
            /\ Keys(r.result_nodes) = SeedAndTargets(ret.seed, ret.val.trace_result)

\* A simple record of three nodes loaded by both programs; an 'IN' trace of
\* depth 2 has returned two hops, and the backward slice has the three keys.
C29_Witness ==
  /\ SimpleRecord /\ loaded /\ svc.status = "ok"
  /\ TraceReturned
  /\ ret.direction = "IN"
  /\ ret.depth = 2
  /\ Len(ret.val.trace_result) = 2
  /\ Cardinality(Keys(slice(graph, ret.seed, "backward", 2,
                            ret.edge_types).result_nodes)) = 3
  /\ slice(graph, ret.seed, "forward", 2, ret.edge_types).result_nodes
       = << [id |-> ret.seed, flag |-> FALSE] >>

RunEnded == agent.pc \in {"returned", "raised"}

\* C30: run_loop is bounded whatever the Lead answers: a run performs at most
\* max_turns iterations; the Scout is dispatched at most max_turns - 1 times
\* and never in the final turn; and a run that has ended without a turn
\* returning a result has returned "Investigation timed out.".
C30_RunLoopBoundedAndTimesOut ==
  (agent.pc # "idle") =>
    /\ agent.iterations <= agent.max_turns
    /\ agent.scouts <= agent.max_turns - 1
    /\ agent.max_turns - 1 \notin agent.scout_turns
    /\ (RunEnded /\ agent.result \notin {"payload", "forced payload", "forced text"})
         => (agent.pc = "returned" /\ agent.result = "Investigation timed out.")
====

